---------------------------- MODULE Spec2Model ----------------------------
(***************************************************************************)
(* A model of the Prospect Park PostgreSQL wire-protocol server: the frame *)
(* reader, the startup / password handshake, the dispatch of frontend      *)
(* messages and the handlers of the simple and the extended query          *)
(* protocol.  Bytes are numbers 0..255, byte strings are sequences of      *)
(* bytes, and the transport delivers the client's bytes in reads whose     *)
(* sizes the transport chooses.                                            *)
(***************************************************************************)
EXTENDS Integers, Sequences, FiniteSets, TLC

(***************************************************************************)
(* Bounds of the model.                                                    *)
(***************************************************************************)
\* the largest number of frontend messages a client sends after the handshake
MaxMsgs == 2
\* the largest number of frames a client sends after its password, in the
\* specification of the frame reader
MaxFrames == 2
\* the largest number of iterations of the frame reader's loop that one read
\* is followed for (the loop need not terminate on a malformed length)
MaxIter == 8
\* the largest number of columns of a row description and of values of a data
\* row that a builder is called with
MaxCols == 2

(***************************************************************************)
(* utils/bytes.ts and the typed-array operations the code uses.            *)
(***************************************************************************)
Min(a, b) == IF a < b THEN a ELSE b
Max(a, b) == IF a > b THEN a ELSE b

\* DataView.getInt32(off, false): big-endian, signed, 32 bits
getInt32(b, off) ==
  LET top == IF b[off + 1] >= 128 THEN b[off + 1] - 256 ELSE b[off + 1]
  IN  top * 16777216 + b[off + 2] * 65536 + b[off + 3] * 256 + b[off + 4]

\* DataView.getInt16(off, false): big-endian, signed, 16 bits
getInt16(b, off) ==
  LET u == b[off + 1] * 256 + b[off + 2]
  IN  IF u >= 32768 THEN u - 65536 ELSE u

\* be32(n): DataView.setInt32 keeps the low 32 bits, two's complement
be32(n) ==
  << (n \div 16777216) % 256, (n \div 65536) % 256, (n \div 256) % 256, n % 256 >>

\* be16(n): DataView.setInt16 keeps the low 16 bits
be16(n) ==
  LET u == n % 65536
  IN  << (u \div 256) % 256, u % 256 >>

\* TypedArray.prototype.subarray(begin, end): a negative index counts from the
\* end, both indices are clamped to 0..length, an empty range gives no bytes
RelIndex(i, n) == IF i < 0 THEN Max(n + i, 0) ELSE Min(i, n)

subarray(b, begin, end) ==
  LET lo == RelIndex(begin, Len(b))
      hi == RelIndex(end, Len(b))
  IN  IF hi <= lo THEN << >> ELSE SubSeq(b, lo + 1, hi)

\* z(s): the bytes of s and one zero byte
z(s) == s \o << 0 >>

\* readCString(buf, offset): the bytes up to the next zero byte (or the end of
\* the buffer) and the offset after the terminator
RECURSIVE cstringEnd(_, _)
cstringEnd(b, end) ==
  IF end < Len(b) /\ b[end + 1] # 0 THEN cstringEnd(b, end + 1) ELSE end

readCString(b, offset) ==
  LET end == cstringEnd(b, offset)
  IN  [s |-> subarray(b, offset, end), next |-> end + 1]

\* String.fromCharCode of a frame's first byte, for the tags the dispatch knows
fromCharCode(c) ==
  CASE c = 81 -> "Q" [] c = 80 -> "P" [] c = 66 -> "B" [] c = 68 -> "D"
    [] c = 69 -> "E" [] c = 83 -> "S" [] c = 72 -> "H" [] c = 67 -> "C"
    [] c = 88 -> "X" [] c = 112 -> "p" [] OTHER -> "?"


(***************************************************************************)
(* protocol/messages.ts: the backend messages, as structured values.  One  *)
(* record shape serves every message: tag is the type byte, code the       *)
(* status / auth type / SQLSTATE / parameter value, text the fixed part of *)
(* a message text, name the interpolated part, cols the column             *)
(* descriptors, cells the row values and num the row count of a tag.       *)
(***************************************************************************)
BackendMsg(tag, code, text, name) ==
  [tag |-> tag, code |-> code, text |-> text, name |-> name,
   cols |-> << >>, cells |-> << >>, num |-> 0]

AuthenticationOk == BackendMsg("R", "0", "", << >>)

\* the request handleStartup builds by hand: 'R', length 8, type 3
AuthenticationCleartextPassword == BackendMsg("R", "3", "", << >>)

ParameterStatus(k, v) == BackendMsg("S", v, k, << >>)

\* the two identifiers are random numbers; they are left out of the value
BackendKeyData == BackendMsg("K", "", "", << >>)

ReadyForQuery(status) == BackendMsg("Z", status, "", << >>)

ErrorResponse(message, name, code) == BackendMsg("E", code, message, name)

EmptyQueryResponse == BackendMsg("I", "", "", << >>)

ParseComplete == BackendMsg("1", "", "", << >>)

BindComplete == BackendMsg("2", "", "", << >>)

CloseComplete == BackendMsg("3", "", "", << >>)

NoData == BackendMsg("n", "", "", << >>)

RowDescription(cols) == [BackendMsg("T", "", "", << >>) EXCEPT !.cols = cols]

DataRow(values) == [BackendMsg("D", "", "", << >>) EXCEPT !.cells = values]

\* CommandComplete of the tag "SELECT <n>"
CommandComplete(n) == [BackendMsg("C", "", "SELECT", << >>) EXCEPT !.num = n]

\* the single byte 'N' that answers an SSLRequest (not a framed message)
SSLRefusal == BackendMsg("N", "", "", << >>)

\* the messages handlePasswordMessage writes once the password is accepted
AuthSuccessBurst ==
  << AuthenticationOk,
     ParameterStatus("server_version", "16.0"),
     ParameterStatus("client_encoding", "UTF8"),
     ParameterStatus("standard_conforming_strings", "on"),
     ParameterStatus("TimeZone", "UTC"),
     BackendKeyData,
     ReadyForQuery("I") >>


(***************************************************************************)
(* The SQL matcher (parseSelect) and the executor (execSelect).  SQL text  *)
(* is a byte string.  The regular expressions of the source are matched on *)
(* the whitespace-separated words of the text, which is what they amount   *)
(* to for texts without a WHERE clause.                                    *)
(***************************************************************************)
\* \s of a JavaScript regular expression, on ASCII
IsSpace(c) == c \in {9, 10, 11, 12, 13, 32}

RECURSIVE trimStart(_)
trimStart(s) ==
  IF s # << >> /\ IsSpace(Head(s)) THEN trimStart(Tail(s)) ELSE s

RECURSIVE trimEnd(_)
trimEnd(s) ==
  IF s # << >> /\ IsSpace(s[Len(s)]) THEN trimEnd(SubSeq(s, 1, Len(s) - 1)) ELSE s

\* String.prototype.trim
trim(s) == trimEnd(trimStart(s))

\* the i flag: ASCII letters compare in lower case
toLower(s) == [i \in 1..Len(s) |-> IF s[i] \in 65..90 THEN s[i] + 32 ELSE s[i]]

\* the words of s: its maximal runs of non-space bytes, in order
RECURSIVE splitWords(_, _, _)
splitWords(s, word, acc) ==
  IF s = << >> THEN (IF word = << >> THEN acc ELSE Append(acc, word))
  ELSE IF IsSpace(Head(s))
       THEN splitWords(Tail(s), << >>, IF word = << >> THEN acc ELSE Append(acc, word))
       ELSE splitWords(Tail(s), Append(word, Head(s)), acc)

Words(s) == splitWords(s, << >>, << >>)

\* /^\s*select\s+1\s*;?\s*$/i, the built-in query of handleSimpleQuery
IsSelectOne(sql) ==
  LET w == Words(sql)
  IN  /\ Len(w) \in {2, 3}
      /\ toLower(w[1]) = <<115, 101, 108, 101, 99, 116>>
      /\ \/ Len(w) = 2 /\ w[2] \in { <<49>>, <<49, 59>> }
         \/ Len(w) = 3 /\ w[2] = <<49>> /\ w[3] = <<59>>

\* [a-zA-Z_][a-zA-Z0-9_]*
IsIdent(w) ==
  /\ w # << >>
  /\ w[1] \in (65..90) \cup (97..122) \cup {95}
  /\ \A i \in 1..Len(w) : w[i] \in (65..90) \cup (97..122) \cup (48..57) \cup {95}

\* \d+
IsDigits(w) == w # << >> /\ \A i \in 1..Len(w) : w[i] \in 48..57

RECURSIVE toNumber(_, _)
toNumber(w, acc) ==
  IF w = << >> THEN acc ELSE toNumber(Tail(w), acc * 10 + (Head(w) - 48))

\* the column list: the words between select and from, joined and split at commas
RECURSIVE joinWords(_)
joinWords(ws) ==
  IF ws = << >> THEN << >>
  ELSE IF Len(ws) = 1 THEN ws[1]
  ELSE ws[1] \o <<32>> \o joinWords(Tail(ws))

RECURSIVE splitCommas(_, _, _)
splitCommas(s, item, acc) ==
  IF s = << >> THEN Append(acc, trim(item))
  ELSE IF Head(s) = 44 THEN splitCommas(Tail(s), << >>, Append(acc, trim(item)))
  ELSE splitCommas(Tail(s), Append(item, Head(s)), acc)

NoQuery == [ok |-> FALSE, star |-> FALSE, columns |-> << >>, table |-> << >>,
            hasLimit |-> FALSE, limit |-> 0, isCountStar |-> FALSE]

\* parseSelect(sqlRaw): the SelectQuery of the text, or null (ok = FALSE)
parseSelect(sqlRaw) ==
  LET t    == trim(sqlRaw)
      sql  == IF t # << >> /\ t[Len(t)] = 59 THEN SubSeq(t, 1, Len(t) - 1) ELSE t
      w    == Words(sql)
      n    == Len(w)
      lim  == n >= 6 /\ toLower(w[n - 1]) = <<108, 105, 109, 105, 116>> /\ IsDigits(w[n])
      m    == IF lim THEN n - 2 ELSE n
      good == /\ m >= 4
              /\ toLower(w[1]) = <<115, 101, 108, 101, 99, 116>>
              /\ toLower(w[m - 1]) = <<102, 114, 111, 109>>
              /\ IsIdent(w[m])
      cols == joinWords(SubSeq(w, 2, m - 2))
      cnt  == toLower(cols) = <<99, 111, 117, 110, 116, 40, 42, 41>>
  IN  IF ~good THEN NoQuery
      ELSE [ok |-> TRUE,
            star |-> cnt \/ cols = <<42>>,
            columns |-> IF cnt \/ cols = <<42>> THEN << >> ELSE splitCommas(cols, << >>, << >>),
            table |-> w[m],
            hasLimit |-> lim,
            limit |-> IF lim THEN toNumber(w[n], 0) ELSE 0,
            isCountStar |-> cnt]


(***************************************************************************)
(* execSelect over the loaded database.  A database maps schema names to   *)
(* tables, a table is a sequence of rows, a row is the ordered list of its *)
(* keys with the JSON type (kind) and the text of each value.              *)
(***************************************************************************)
OIDbool == 16
OIDint4 == 23
OIDtext == 25
OIDfloat8 == 701

ColumnSpec(name, oid, size) ==
  [name |-> name, typeOID |-> oid, typeSize |-> size, format |-> 0]

\* a value a row lacks (undefined)
Undefined == [kind |-> "undefined", text |-> << >>]

\* r[name]
Field(r, name) ==
  IF \E i \in 1..Len(r) : r[i].name = name
  THEN LET i == CHOOSE j \in 1..Len(r) : r[j].name = name
       IN  [kind |-> r[i].kind, text |-> r[i].text]
  ELSE Undefined

inferOID(v) ==
  CASE v.kind = "boolean" -> [oid |-> OIDbool, size |-> 1]
    [] v.kind = "integer" -> [oid |-> OIDint4, size |-> 4]
    [] v.kind = "float"   -> [oid |-> OIDfloat8, size |-> 8]
    [] OTHER              -> [oid |-> OIDtext, size |-> -1]

\* toTextCell(v): null for null and undefined, else the text of the value
toTextCell(v) ==
  IF v.kind \in {"null", "undefined"}
  THEN [null |-> TRUE, v |-> << >>]
  ELSE [null |-> FALSE, v |-> v.text]

\* String(n) of a row count
RECURSIVE toDecimal(_)
toDecimal(n) ==
  IF n < 10 THEN << 48 + n >> ELSE Append(toDecimal(n \div 10), 48 + (n % 10))

Thrown(message, name) ==
  [ok |-> FALSE, cols |-> << >>, data |-> << >>, num |-> 0,
   message |-> message, name |-> name]

Returned(cols, data, num) ==
  [ok |-> TRUE, cols |-> cols, data |-> data, num |-> num,
   message |-> "", name |-> << >>]

Public == <<112, 117, 98, 108, 105, 99>>

\* execSelect(q, db): the columns, the data rows and the row count of the tag,
\* or the error it throws
execSelect(q, database) ==
  IF Public \notin DOMAIN database
  THEN Thrown("schema does not exist", Public)
  ELSE IF q.table \notin DOMAIN database[Public]
  THEN Thrown("relation does not exist", Public \o <<46>> \o q.table)
  ELSE
    LET table   == database[Public][q.table]
        rows    == IF q.hasLimit THEN SubSeq(table, 1, Min(q.limit, Len(table))) ELSE table
        first   == IF rows = << >> THEN << >> ELSE rows[1]
        outCols == IF q.star THEN [i \in 1..Len(first) |-> first[i].name] ELSE q.columns
        colsSpec == [i \in 1..Len(outCols) |->
                      LET t == inferOID(Field(first, outCols[i]))
                      IN  ColumnSpec(outCols[i], t.oid, t.size)]
        data    == [k \in 1..Len(rows) |->
                      DataRow([i \in 1..Len(outCols) |-> toTextCell(Field(rows[k], outCols[i]))])]
    IN  IF q.isCountStar
        THEN Returned(<< ColumnSpec(<<99, 111, 117, 110, 116>>, OIDint4, 4) >>,
                      << DataRow(<< [null |-> FALSE, v |-> toDecimal(Len(rows))] >>) >>, 1)
        ELSE Returned(colsSpec, data, Len(rows))


(***************************************************************************)
(* protocol/messages.ts and utils/bytes.ts: the builders of the backend    *)
(* messages, at the level of bytes.  A call names the builder and gives    *)
(* its arguments: byte strings s1 and s2, numbers n1 and n2, column        *)
(* descriptors cols, row values values.                                    *)
(***************************************************************************)
Call(fn, s1, s2, n1, n2, cols, values) ==
  [fn |-> fn, s1 |-> s1, s2 |-> s2, n1 |-> n1, n2 |-> n2, cols |-> cols, values |-> values]

\* no builder is being called
NoCall == [call |-> Call("", << >>, << >>, 0, 0, << >>, << >>), bytes |-> << >>,
           built |-> FALSE]

\* msg that counts the tag byte in the length
msgCountsTag(type, payload) == << type >> \o be32(Len(payload) + 5) \o payload

\* msg(type, payload): the tag, the length of the body plus 4, the body
msg(type, payload) == << type >> \o be32(Len(payload) + 4) \o payload

\* the column loop of RowDescription with the type size before the type OID
RECURSIVE columnsSizeFirst(_)
columnsSizeFirst(cols) ==
  IF cols = << >> THEN << >>
  ELSE z(Head(cols).name) \o be32(0) \o be16(0) \o be16(Head(cols).typeSize)
       \o be32(Head(cols).typeOID) \o be32(-1) \o be16(Head(cols).format)
       \o columnsSizeFirst(Tail(cols))

\* the loop of RowDescription over the columns
RECURSIVE columns(_)
columns(cols) ==
  IF cols = << >> THEN << >>
  ELSE z(Head(cols).name) \o be32(0) \o be16(0) \o be32(Head(cols).typeOID)
       \o be16(Head(cols).typeSize) \o be32(-1) \o be16(Head(cols).format)
       \o columns(Tail(cols))

\* the loop of DataRow over the values
RECURSIVE cells(_)
cells(values) ==
  IF values = << >> THEN << >>
  ELSE (IF Head(values).null THEN be32(-1)
        ELSE be32(Len(Head(values).v)) \o Head(values).v)
       \o cells(Tail(values))

\* the bytes the builder returns ("NOTICE" is 78 79 84 73 67 69, "ERROR" is
\* 69 82 82 79 82)
build(c) ==
  CASE c.fn = "AuthenticationOk"   -> msg(82, be32(0))
    [] c.fn = "ParameterStatus"    -> msg(83, z(c.s1) \o z(c.s2))
    [] c.fn = "BackendKeyData"     -> msg(75, be32(c.n1) \o be32(c.n2))
    [] c.fn = "ReadyForQuery"      -> msg(90, c.s1)
    [] c.fn = "CommandComplete"    -> msg(67, z(c.s1))
    [] c.fn = "EmptyQueryResponse" -> msg(73, << >>)
    [] c.fn = "NoticeResponse"     ->
         msg(78, <<83>> \o z(<<78, 79, 84, 73, 67, 69>>) \o <<77>> \o z(c.s1) \o <<0>>)
    [] c.fn = "ErrorResponse"      ->
         msg(69, <<83>> \o z(<<69, 82, 82, 79, 82>>) \o <<67>> \o z(c.s2) \o <<77>> \o z(c.s1) \o <<0>>)
    [] c.fn = "RowDescription"     -> msg(84, be16(Len(c.cols)) \o columns(c.cols))
    [] c.fn = "DataRow"            -> msg(68, be16(Len(c.values)) \o cells(c.values))
    [] c.fn = "ParseComplete"      -> msg(49, << >>)
    [] c.fn = "BindComplete"       -> msg(50, << >>)
    [] c.fn = "CloseComplete"      -> msg(51, << >>)
    [] OTHER                       -> msg(110, << >>)


(***************************************************************************)
(* The state.  Socks are the sockets the server has accepted; every        *)
(* per-connection value is a function of the socket.                       *)
(***************************************************************************)
Socks == {"a", "b"}

VARIABLES
  cfg,              \* the configuration: authUser, authPassword, defaultDb
  disk,             \* which data directory the server runs on (see DataDir)
  wire,             \* per socket, the flights of bytes the client sends that are not delivered yet
  connections,      \* the sockets that have a ConnState (the keys of the WeakMap)
  dbName,           \* ConnState.dbName
  buffer,           \* ConnState.buffer
  prepared,         \* ConnState.prepared: statement name -> SQL text
  portals,          \* ConnState.portals: portal name -> statement name
  awaitingPassword, \* ConnState.awaitingPassword
  expectedUser,     \* ConnState.expectedUser
  expectedPassword, \* ConnState.expectedPassword (empty: none)
  authenticated,    \* ConnState.authenticated
  ended,            \* per socket, whether sock.end() was called
  out,              \* per socket, the backend messages the transport accepted, in order
  dropped,          \* per socket, whether a write call was made after sock.end()
  pending,          \* the handlers suspended in "await loadDB(...)", oldest first
  pc,               \* "idle", or "loop" inside processFrontendMessages
  cur,              \* the socket whose data callback is running
  buf,              \* the local variable buf of processFrontendMessages
  iter,             \* the loop iterations of the running data callback
  log,              \* per socket, the (type, payload) pairs onMessage was called with
  split,            \* per socket, whether a read has ended with bytes left in the buffer
  origin,           \* per socket and message of out, the number of the dispatch that wrote it
  script,           \* per socket, the frames its client set out to send after the startup
  codec             \* a call of a message builder, the bytes it returned and their reading

vars == << cfg, disk, wire, connections, dbName, buffer, prepared, portals,
           awaitingPassword, expectedUser, expectedPassword, authenticated,
           ended, out, dropped, pending, pc, cur, buf, iter, log, split, origin, script,
           codec >>

env == << cfg, disk, script, codec >>

session == << dbName, expectedUser, expectedPassword >>

\* the empty Map
EmptyMap == [k \in {} |-> << >>]

\* Map.prototype.set and Map.prototype.delete
MapSet(m, k, v) == [x \in DOMAIN m \cup {k} |-> IF x = k THEN v ELSE m[x]]

MapDelete(m, k) == [x \in DOMAIN m \ {k} |-> m[x]]

\* the data directory: database d, schema public, table t of two rows
\* ("rows"), or no directory at all
DataDir(d) ==
  LET row1 == << [name |-> <<105, 100>>, kind |-> "integer", text |-> <<49>>],
                 [name |-> <<118>>, kind |-> "string", text |-> <<97>>] >>
      row2 == << [name |-> <<105, 100>>, kind |-> "integer", text |-> <<50>>],
                 [name |-> <<118>>, kind |-> "null", text |-> << >>] >>
  IN  IF d = "rows"
      THEN MapSet(EmptyMap, <<100>>, MapSet(EmptyMap, Public, MapSet(EmptyMap, <<116>>, << row1, row2 >>)))
      ELSE EmptyMap

\* loadDB(name): the schemas of ./data/<name>, with a public schema in any case
loadDB(name) ==
  LET dir   == DataDir(disk)
      found == IF name \in DOMAIN dir THEN dir[name] ELSE EmptyMap
  IN  IF Public \in DOMAIN found THEN found ELSE MapSet(found, Public, EmptyMap)


(***************************************************************************)
(* The handlers.  A handler is given the socket and the payload of the     *)
(* frame and yields its effect: the messages it writes, whether it ends    *)
(* the socket, the new values of the fields of ConnState it may assign,    *)
(* the continuations it leaves suspended in an await, and whether it       *)
(* throws (a DataView read outside the receive buffer).                    *)
(***************************************************************************)
Effect(s, writes) ==
  [writes |-> writes, end |-> FALSE, throws |-> FALSE, spawn |-> << >>,
   prepared |-> prepared[s], portals |-> portals[s],
   awaitingPassword |-> awaitingPassword[s], authenticated |-> authenticated[s]]

\* a handler suspended in its await; seq numbers the dispatch that started it
Task(s, kind, sql) ==
  [sock |-> s, kind |-> kind, sql |-> sql, dbName |-> dbName[s], seq |-> Len(log[s]) + 1]

\* handlePasswordMessage with a rejection that leaves the socket open
handlePasswordMessageKeepsOpen(s, payload) ==
  LET password == subarray(payload, 0, Len(payload) - 1)
  IN  IF expectedPassword[s] # << >> /\ password # expectedPassword[s]
      THEN Effect(s, << ErrorResponse("authentication failed for user",
                                      expectedUser[s], "28P01") >>)
      ELSE [Effect(s, AuthSuccessBurst)
              EXCEPT !.awaitingPassword = FALSE, !.authenticated = TRUE]

\* handlePasswordMessage that accepts the password without the parameter burst
handlePasswordMessageBare(s, payload) ==
  LET password == subarray(payload, 0, Len(payload) - 1)
  IN  IF expectedPassword[s] # << >> /\ password # expectedPassword[s]
      THEN [Effect(s, << ErrorResponse("authentication failed for user",
                                       expectedUser[s], "28P01") >>)
              EXCEPT !.end = TRUE]
      ELSE [Effect(s, << AuthenticationOk, ReadyForQuery("I") >>)
              EXCEPT !.awaitingPassword = FALSE, !.authenticated = TRUE]

\* handlePasswordMessage(sock, state, payload)
handlePasswordMessage(s, payload) ==
  LET password == subarray(payload, 0, Len(payload) - 1)
  IN  IF expectedPassword[s] # << >> /\ password # expectedPassword[s]
      THEN [Effect(s, << ErrorResponse("authentication failed for user",
                                       expectedUser[s], "28P01") >>)
              EXCEPT !.end = TRUE]
      ELSE [Effect(s, AuthSuccessBurst)
              EXCEPT !.awaitingPassword = FALSE, !.authenticated = TRUE]

\* handleSimpleQuery(sock, state, sql) up to its first await: the built-in
\* SELECT 1 is answered at once, any other text waits for loadDB
handleSimpleQuery(s, sql) ==
  IF IsSelectOne(sql)
  THEN Effect(s, << RowDescription(<< ColumnSpec(<<63, 99, 111, 108, 117, 109, 110, 63>>,
                                                 OIDint4, 4) >>),
                    DataRow(<< [null |-> FALSE, v |-> <<49>>] >>),
                    CommandComplete(1),
                    ReadyForQuery("I") >>)
  ELSE [Effect(s, << >>) EXCEPT !.spawn = << Task(s, "query", sql) >>]

\* handleSimpleQuery that writes the row description before it runs the query
resumeSimpleQueryStreams(t) ==
  LET parsed == parseSelect(t.sql)
      res    == execSelect(parsed, loadDB(t.dbName))
  IN  IF ~parsed.ok
      THEN << ErrorResponse("Unsupported or malformed query", t.sql, "XX000"),
              ReadyForQuery("E") >>
      ELSE << RowDescription(res.cols) >>
           \o (IF res.ok
               THEN res.data \o << CommandComplete(res.num), ReadyForQuery("I") >>
               ELSE << ErrorResponse(res.message, res.name, "XX000"), ReadyForQuery("E") >>)

\* handleSimpleQuery after "await loadDB(state.dbName)"
\* the continuation that looks up the text of statement "s" when the load has
\* completed, instead of using the text its handler resolved
resumeSimpleQueryLate(t) ==
  LET sql    == IF <<115>> \in DOMAIN prepared[t.sock] THEN prepared[t.sock][<<115>>]
                ELSE t.sql
      parsed == parseSelect(sql)
      res    == execSelect(parsed, loadDB(t.dbName))
  IN  IF ~parsed.ok
      THEN << ErrorResponse("Unsupported or malformed query", sql, "XX000"),
              ReadyForQuery("E") >>
      ELSE IF res.ok
      THEN << RowDescription(res.cols) >> \o res.data
             \o << CommandComplete(res.num), ReadyForQuery("I") >>
      ELSE << ErrorResponse(res.message, res.name, "XX000"), ReadyForQuery("E") >>

\* the continuation that ends a result without ReadyForQuery
resumeSimpleQueryNoReady(t) ==
  LET parsed == parseSelect(t.sql)
      res    == execSelect(parsed, loadDB(t.dbName))
  IN  IF ~parsed.ok
      THEN << ErrorResponse("Unsupported or malformed query", t.sql, "XX000"),
              ReadyForQuery("E") >>
      ELSE IF res.ok
      THEN << RowDescription(res.cols) >> \o res.data \o << CommandComplete(res.num) >>
      ELSE << ErrorResponse(res.message, res.name, "XX000"), ReadyForQuery("E") >>

resumeSimpleQuery(t) ==
  LET parsed == parseSelect(t.sql)
      res    == execSelect(parsed, loadDB(t.dbName))
  IN  IF ~parsed.ok
      THEN << ErrorResponse("Unsupported or malformed query", t.sql, "XX000"),
              ReadyForQuery("E") >>
      ELSE IF res.ok
      THEN << RowDescription(res.cols) >> \o res.data
             \o << CommandComplete(res.num), ReadyForQuery("I") >>
      ELSE << ErrorResponse(res.message, res.name, "XX000"), ReadyForQuery("E") >>

\* a DataView read of w bytes at offset pos of the receive buffer is in range
InRange(whole, pos, w) == pos >= 0 /\ pos + w <= Len(whole)

\* handleParse that keeps the statement a name already has
handleParseKeepsFirst(s, payload, whole, base) ==
  LET r1  == readCString(payload, 0)
      r2  == readCString(payload, r1.next)
      off == r2.next
  IN  IF ~InRange(whole, base + off, 2)
      THEN [Effect(s, << >>) EXCEPT !.throws = TRUE]
      ELSE IF getInt16(whole, base + off) > 0
      THEN Effect(s, << ErrorResponse("parameters not supported in prepared statements",
                                      << >>, "XX000"),
                        ReadyForQuery("E") >>)
      ELSE [Effect(s, << ParseComplete >>)
              EXCEPT !.prepared = IF r1.s \in DOMAIN prepared[s] THEN prepared[s]
                                  ELSE MapSet(prepared[s], r1.s, r2.s)]

\* handleParse that stores the statement before it looks at the parameters
handleParseStoresFirst(s, payload, whole, base) ==
  LET r1  == readCString(payload, 0)
      r2  == readCString(payload, r1.next)
      off == r2.next
  IN  IF ~InRange(whole, base + off, 2)
      THEN [Effect(s, << >>) EXCEPT !.throws = TRUE]
      ELSE IF getInt16(whole, base + off) > 0
      THEN [Effect(s, << ErrorResponse("parameters not supported in prepared statements",
                                       << >>, "XX000"),
                         ReadyForQuery("E") >>)
              EXCEPT !.prepared = MapSet(prepared[s], r1.s, r2.s)]
      ELSE [Effect(s, << ParseComplete >>)
              EXCEPT !.prepared = MapSet(prepared[s], r1.s, r2.s)]

\* handleParse(sock, state, payload); whole is the array the payload is a view
\* of and base the payload's byteOffset in it
handleParse(s, payload, whole, base) ==
  LET r1  == readCString(payload, 0)
      r2  == readCString(payload, r1.next)
      off == r2.next
  IN  IF ~InRange(whole, base + off, 2)
      THEN [Effect(s, << >>) EXCEPT !.throws = TRUE]
      ELSE IF getInt16(whole, base + off) > 0
      THEN Effect(s, << ErrorResponse("parameters not supported in prepared statements",
                                      << >>, "XX000"),
                        ReadyForQuery("E") >>)
      ELSE [Effect(s, << ParseComplete >>)
              EXCEPT !.prepared = MapSet(prepared[s], r1.s, r2.s)]

\* the loop of handleBind over the parameter values: the offset after i more
\* values, or -1 when a read leaves the buffer
RECURSIVE skipParams(_, _, _)
skipParams(whole, pos, i) ==
  IF i <= 0 THEN pos
  ELSE IF ~InRange(whole, pos, 4) THEN -1
  ELSE LET n == getInt32(whole, pos)
       IN  skipParams(whole, pos + 4 + (IF n >= 0 THEN n ELSE 0), i - 1)

\* handleBind that binds the portal without looking the statement up
handleBindUnchecked(s, payload, whole, base) ==
  LET rPortal == readCString(payload, 0)
      rStmt   == readCString(payload, rPortal.next)
  IN  [Effect(s, << BindComplete >>)
         EXCEPT !.portals = MapSet(portals[s], rPortal.s, rStmt.s)]

\* handleBind that gives the portal a copy of the statement, under a name of
\* its own, instead of the statement's name
handleBindCopiesSql(s, payload, whole, base) ==
  LET rPortal == readCString(payload, 0)
      rStmt   == readCString(payload, rPortal.next)
      copy    == << 0 >> \o rPortal.s
  IN  IF rStmt.s \notin DOMAIN prepared[s]
      THEN Effect(s, << ErrorResponse("prepared statement does not exist", rStmt.s, "XX000"),
                        ReadyForQuery("E") >>)
      ELSE [Effect(s, << BindComplete >>)
              EXCEPT !.prepared = MapSet(prepared[s], copy, prepared[s][rStmt.s]),
                     !.portals = MapSet(portals[s], rPortal.s, copy)]

\* handleBind(sock, state, payload)
handleBind(s, payload, whole, base) ==
  LET rPortal  == readCString(payload, 0)
      rStmt    == readCString(payload, rPortal.next)
      off1     == base + rStmt.next
      okFmt    == InRange(whole, off1, 2)
      fmtCount == IF okFmt THEN getInt16(whole, off1) ELSE 0
      off2     == off1 + 2 + fmtCount * 2
      okCount  == okFmt /\ off2 >= base /\ InRange(whole, off2, 2)
      paramCount == IF okCount THEN getInt16(whole, off2) ELSE 0
      okVals   == okCount /\ skipParams(whole, off2 + 2, paramCount) >= 0
  IN  IF ~okVals
      THEN [Effect(s, << >>) EXCEPT !.throws = TRUE]
      ELSE IF rStmt.s \notin DOMAIN prepared[s]
      THEN Effect(s, << ErrorResponse("prepared statement does not exist", rStmt.s, "XX000"),
                        ReadyForQuery("E") >>)
      ELSE IF paramCount > 0
      THEN Effect(s, << ErrorResponse("parameters not supported in prepared statements",
                                      << >>, "XX000"),
                        ReadyForQuery("E") >>)
      ELSE [Effect(s, << BindComplete >>)
              EXCEPT !.portals = MapSet(portals[s], rPortal.s, rStmt.s)]

\* the SQL text Describe and Execute resolve a name to; empty when there is none
\* (an empty text counts as none: "if (!sql)")
statementSql(s, name) ==
  IF name \in DOMAIN prepared[s] THEN prepared[s][name] ELSE << >>

portalSql(s, name) ==
  IF name \in DOMAIN portals[s] THEN statementSql(s, portals[s][name]) ELSE << >>

\* handleDescribe that answers a name it cannot resolve with an error
handleDescribeStrict(s, payload) ==
  LET kind == IF payload = << >> THEN 0 ELSE payload[1]
      name == readCString(payload, 1).s
      sql  == IF kind = 83 THEN statementSql(s, name)
              ELSE IF kind = 80 THEN portalSql(s, name)
              ELSE << >>
  IN  IF sql = << >>
      THEN Effect(s, << ErrorResponse("does not exist", name, "XX000"), ReadyForQuery("E") >>)
      ELSE IF ~parseSelect(sql).ok THEN Effect(s, << NoData >>)
      ELSE [Effect(s, << >>) EXCEPT !.spawn = << Task(s, "describe", sql) >>]

\* handleDescribe(sock, state, payload) up to its await
handleDescribe(s, payload) ==
  LET kind == IF payload = << >> THEN 0 ELSE payload[1]
      name == readCString(payload, 1).s
      sql  == IF kind = 83 THEN statementSql(s, name)
              ELSE IF kind = 80 THEN portalSql(s, name)
              ELSE << >>
  IN  IF sql = << >> THEN Effect(s, << NoData >>)
      ELSE IF ~parseSelect(sql).ok THEN Effect(s, << NoData >>)
      ELSE [Effect(s, << >>) EXCEPT !.spawn = << Task(s, "describe", sql) >>]

\* handleDescribe after "await loadDB(state.dbName)": the dry run with limit 0
resumeDescribe(t) ==
  LET parsed == parseSelect(t.sql)
      res    == execSelect([parsed EXCEPT !.hasLimit = TRUE, !.limit = 0],
                           loadDB(t.dbName))
  IN  IF res.ok THEN << RowDescription(res.cols) >> ELSE << NoData >>

\* handleExecute that forgets a portal whose statement is gone and answers a
\* portal it does not know with an empty result
handleExecuteLenient(s, payload) ==
  LET portal == readCString(payload, 0).s
  IN  IF portal \notin DOMAIN portals[s]
      THEN Effect(s, << RowDescription(<< >>), CommandComplete(0), ReadyForQuery("I") >>)
      ELSE IF portalSql(s, portal) = << >>
      THEN [Effect(s, << ErrorResponse("prepared statement missing", portals[s][portal],
                                       "XX000"),
                         ReadyForQuery("E") >>)
              EXCEPT !.portals = MapDelete(portals[s], portal)]
      ELSE handleSimpleQuery(s, portalSql(s, portal))

\* handleExecute that closes the socket when the portal does not exist
handleExecutePortalFatal(s, payload) ==
  LET portal == readCString(payload, 0).s
  IN  IF portal \notin DOMAIN portals[s]
      THEN [Effect(s, << ErrorResponse("portal does not exist", portal, "XX000"),
                         ReadyForQuery("E") >>) EXCEPT !.end = TRUE]
      ELSE IF portalSql(s, portal) = << >>
      THEN Effect(s, << ErrorResponse("prepared statement missing", portals[s][portal],
                                      "XX000"),
                        ReadyForQuery("E") >>)
      ELSE handleSimpleQuery(s, portalSql(s, portal))

\* handleExecute(sock, state, payload)
handleExecute(s, payload) ==
  LET portal == readCString(payload, 0).s
  IN  IF portal \notin DOMAIN portals[s]
      THEN Effect(s, << ErrorResponse("portal does not exist", portal, "XX000"),
                        ReadyForQuery("E") >>)
      ELSE IF portalSql(s, portal) = << >>
      THEN Effect(s, << ErrorResponse("prepared statement missing", portals[s][portal],
                                      "XX000"),
                        ReadyForQuery("E") >>)
      ELSE handleSimpleQuery(s, portalSql(s, portal))

\* handleClose that refuses to close what does not exist
handleCloseStrict(s, payload) ==
  LET kind == IF payload = << >> THEN 0 ELSE payload[1]
      name == readCString(payload, 1).s
  IN  IF (kind = 83 /\ name \notin DOMAIN prepared[s])
         \/ (kind = 80 /\ name \notin DOMAIN portals[s])
      THEN Effect(s, << ErrorResponse("does not exist", name, "XX000"), ReadyForQuery("E") >>)
      ELSE [Effect(s, << CloseComplete >>)
              EXCEPT !.prepared = IF kind = 83 THEN MapDelete(prepared[s], name) ELSE @,
                     !.portals  = IF kind = 80 THEN MapDelete(portals[s], name) ELSE @]

\* handleClose(sock, state, payload)
\* handleClose that also drops the portals bound to the statement it closes
handleCloseCascades(s, payload) ==
  LET kind == IF payload = << >> THEN 0 ELSE payload[1]
      name == readCString(payload, 1).s
  IN  [Effect(s, << CloseComplete >>)
         EXCEPT !.prepared = IF kind = 83 THEN MapDelete(prepared[s], name) ELSE @,
                !.portals  = IF kind = 80 THEN MapDelete(portals[s], name)
                             ELSE IF kind = 83
                             THEN [p \in {q \in DOMAIN portals[s] : portals[s][q] # name}
                                     |-> portals[s][p]]
                             ELSE @]

handleClose(s, payload) ==
  LET kind == IF payload = << >> THEN 0 ELSE payload[1]
      name == readCString(payload, 1).s
  IN  [Effect(s, << CloseComplete >>)
         EXCEPT !.prepared = IF kind = 83 THEN MapDelete(prepared[s], name) ELSE @,
                !.portals  = IF kind = 80 THEN MapDelete(portals[s], name) ELSE @]

\* handleTerminate that leaves the socket open
handleTerminateKeepsOpen(s) == Effect(s, << >>)

\* handleTerminate(sock)
handleTerminate(s) == [Effect(s, << >>) EXCEPT !.end = TRUE]


(***************************************************************************)
(* server.ts: the callback the data handler gives the frame reader.        *)
(***************************************************************************)
\* the switch on the message type
switchOnType(s, type, tagByte, payload, whole, base) ==
       CASE type = "X" -> handleTerminate(s)
         [] type = "Q" ->
              LET sql == subarray(payload, 0, Len(payload) - 1)
              IN  IF trim(sql) = << >>
                  THEN Effect(s, << EmptyQueryResponse, ReadyForQuery("I") >>)
                  ELSE handleSimpleQuery(s, sql)
         [] type = "P" -> handleParse(s, payload, whole, base)
         [] type = "B" -> handleBind(s, payload, whole, base)
         [] type = "D" -> handleDescribe(s, payload)
         [] type = "E" -> handleExecute(s, payload)
         [] type = "S" -> Effect(s, << ReadyForQuery("I") >>)
         [] type = "H" -> Effect(s, << >>)
         [] type = "C" -> handleClose(s, payload)
         [] OTHER -> Effect(s, << ErrorResponse("unsupported message type", << tagByte >>,
                                                "XX000"),
                                  ReadyForQuery("E") >>)

\* the callback with a gate that closes the socket instead of answering
onMessageFatalGate(s, type, tagByte, payload, whole, base) ==
  IF type = "p" /\ awaitingPassword[s] THEN handlePasswordMessage(s, payload)
  ELSE IF ~authenticated[s] THEN [Effect(s, << >>) EXCEPT !.end = TRUE]
  ELSE switchOnType(s, type, tagByte, payload, whole, base)

\* the callback without the gate for unauthenticated sessions
onMessageNoGate(s, type, tagByte, payload, whole, base) ==
  IF type = "p" /\ awaitingPassword[s] THEN handlePasswordMessage(s, payload)
  ELSE switchOnType(s, type, tagByte, payload, whole, base)

\* the callback that leaves a frame of an unknown type unanswered
onMessageUnknownIgnored(s, type, tagByte, payload, whole, base) ==
  IF type = "p" /\ awaitingPassword[s] THEN handlePasswordMessage(s, payload)
  ELSE IF ~authenticated[s]
  THEN Effect(s, << ErrorResponse("Authentication required", << >>, "28P01"),
                    ReadyForQuery("E") >>)
  ELSE IF type \in {"?", "p"} THEN Effect(s, << >>)
  ELSE switchOnType(s, type, tagByte, payload, whole, base)

\* the callback that hands every Query text, blank or not, to handleSimpleQuery
onMessageBlankToEngine(s, type, tagByte, payload, whole, base) ==
  IF type = "p" /\ awaitingPassword[s] THEN handlePasswordMessage(s, payload)
  ELSE IF ~authenticated[s]
  THEN Effect(s, << ErrorResponse("Authentication required", << >>, "28P01"),
                    ReadyForQuery("E") >>)
  ELSE IF type = "Q" THEN handleSimpleQuery(s, subarray(payload, 0, Len(payload) - 1))
  ELSE switchOnType(s, type, tagByte, payload, whole, base)

\* the callback with a Sync that also drops the unnamed statement and portal
onMessageSyncClears(s, type, tagByte, payload, whole, base) ==
  IF type = "p" /\ awaitingPassword[s] THEN handlePasswordMessage(s, payload)
  ELSE IF ~authenticated[s]
  THEN Effect(s, << ErrorResponse("Authentication required", << >>, "28P01"),
                    ReadyForQuery("E") >>)
  ELSE IF type = "S"
  THEN [Effect(s, << ReadyForQuery("I") >>)
          EXCEPT !.prepared = MapDelete(prepared[s], << >>),
                 !.portals = MapDelete(portals[s], << >>)]
  ELSE switchOnType(s, type, tagByte, payload, whole, base)

\* the callback with a Flush that is answered like a Sync
onMessageFlushReplies(s, type, tagByte, payload, whole, base) ==
  IF type = "p" /\ awaitingPassword[s] THEN handlePasswordMessage(s, payload)
  ELSE IF ~authenticated[s]
  THEN Effect(s, << ErrorResponse("Authentication required", << >>, "28P01"),
                    ReadyForQuery("E") >>)
  ELSE IF type = "H" THEN Effect(s, << ReadyForQuery("I") >>)
  ELSE switchOnType(s, type, tagByte, payload, whole, base)

\* the callback with a gate that lets Parse through
onMessageGateAfterParse(s, type, tagByte, payload, whole, base) ==
  IF type = "p" /\ awaitingPassword[s] THEN handlePasswordMessage(s, payload)
  ELSE IF ~authenticated[s] /\ type # "P"
  THEN Effect(s, << ErrorResponse("Authentication required", << >>, "28P01"),
                    ReadyForQuery("E") >>)
  ELSE switchOnType(s, type, tagByte, payload, whole, base)

\* the callback: password messages while one is awaited, the gate for
\* unauthenticated sessions, then the switch
onMessage(s, type, tagByte, payload, whole, base) ==
  IF type = "p" /\ awaitingPassword[s] THEN handlePasswordMessage(s, payload)
  ELSE IF ~authenticated[s]
  THEN Effect(s, << ErrorResponse("Authentication required", << >>, "28P01"),
                    ReadyForQuery("E") >>)
  ELSE switchOnType(s, type, tagByte, payload, whole, base)

(***************************************************************************)
(* The socket.  sock.write hands the messages to the transport, which      *)
(* accepts nothing more once sock.end() was called; sock.end() closes it.  *)
(***************************************************************************)
sockWrite(s, msgs, seq) ==
  IF msgs = << >> THEN UNCHANGED << out, dropped, origin >>
  ELSE IF ended[s]
  THEN dropped' = [dropped EXCEPT ![s] = TRUE] /\ UNCHANGED << out, origin >>
  ELSE /\ out' = [out EXCEPT ![s] = @ \o msgs]
       /\ origin' = [origin EXCEPT ![s] = @ \o [i \in 1..Len(msgs) |-> seq]]
       /\ dropped' = dropped

\* sock.end() that closes every connection of the server
sockEndAll(s, end) == ended' = IF end THEN [x \in Socks |-> TRUE] ELSE ended

sockEnd(s, end) == ended' = IF end THEN [ended EXCEPT ![s] = TRUE] ELSE ended

(***************************************************************************)
(* handlers/connection.ts: handleStartup on the bytes of the first read.   *)
(***************************************************************************)
\* td.decode(payload).split("\0").filter(Boolean): the non-empty runs of
\* non-zero bytes
RECURSIVE splitZero(_, _, _)
splitZero(b, part, acc) ==
  IF b = << >> THEN (IF part = << >> THEN acc ELSE Append(acc, part))
  ELSE IF Head(b) = 0
       THEN splitZero(Tail(b), << >>, IF part = << >> THEN acc ELSE Append(acc, part))
       ELSE splitZero(Tail(b), Append(part, Head(b)), acc)

\* params[key] after the loop over the pairs: the value of the last pair with
\* that key, or empty when there is none (a value is never empty)
RECURSIVE paramOf(_, _, _)
paramOf(parts, key, found) ==
  IF Len(parts) < 2 THEN found
  ELSE paramOf(SubSeq(parts, 3, Len(parts)), key,
               IF parts[1] = key THEN parts[2] ELSE found)

KeyUser == <<117, 115, 101, 114>>
KeyDatabase == <<100, 97, 116, 97, 98, 97, 115, 101>>
Postgres == <<112, 111, 115, 116, 103, 114, 101, 115>>

\* what handleStartup reads from the raw bytes: whether a DataView read throws,
\* the special request it recognises, and the parameters
startupOf(raw) ==
  LET short  == Len(raw) < 4
      len    == IF short THEN 0 ELSE getInt32(raw, 0)
      throws == short \/ (len = 8 /\ Len(raw) < 8)
      code   == IF ~throws /\ len = 8 THEN getInt32(raw, 4) ELSE 0
      parts  == IF throws THEN << >> ELSE splitZero(subarray(raw, 8, len), << >>, << >>)
      user   == paramOf(parts, KeyUser, << >>)
      dbase  == paramOf(parts, KeyDatabase, << >>)
  IN  [throws |-> throws,
       special |-> IF code = 80877103 THEN "ssl" ELSE IF code = 80877102 THEN "cancel" ELSE "",
       providedUser |-> user,
       dbName |-> IF dbase # << >> THEN dbase
                  ELSE IF user # << >> THEN user
                  ELSE IF cfg.defaultDb # << >> THEN cfg.defaultDb
                  ELSE Postgres]

\* handleStartup returns (or throws) before it creates the ConnState
NoSession ==
  [writes |-> << >>, end |-> FALSE, create |-> FALSE,
   dbName |-> << >>, expectedUser |-> << >>, expectedPassword |-> << >>]

\* handleStartupError: the reply to an exception of handleStartup
startupFailed ==
  [NoSession EXCEPT !.writes = << ErrorResponse("startup failed", << >>, "XX000"),
                                  ReadyForQuery("E") >>,
                    !.end = TRUE]

\* handleStartup once the parameters are read: the check of the username, then
\* the ConnState and the password request
startSession(st) ==
  IF cfg.authUser # << >> /\ st.providedUser # cfg.authUser
  THEN [NoSession EXCEPT !.writes = << ErrorResponse("authentication failed for user",
                                                     st.providedUser, "28P01") >>,
                         !.end = TRUE]
  ELSE [writes |-> << AuthenticationCleartextPassword >>, end |-> FALSE,
        create |-> TRUE, dbName |-> st.dbName,
        expectedUser |-> st.providedUser, expectedPassword |-> cfg.authPassword]

\* handleStartup that registers the session although the username differs
handleStartupKeepsSession(raw) ==
  LET st == startupOf(raw)
  IN  IF st.throws THEN startupFailed
      ELSE IF st.special = "ssl" THEN [NoSession EXCEPT !.writes = << SSLRefusal >>]
      ELSE IF st.special = "cancel" THEN NoSession
      ELSE [startSession(st) EXCEPT !.create = TRUE, !.dbName = st.dbName,
                                    !.expectedUser = st.providedUser,
                                    !.expectedPassword = cfg.authPassword]

\* handleStartup that closes the socket after it refuses SSL
handleStartupSSLCloses(raw) ==
  LET st == startupOf(raw)
  IN  IF st.throws THEN startupFailed
      ELSE IF st.special = "ssl" THEN [NoSession EXCEPT !.writes = << SSLRefusal >>, !.end = TRUE]
      ELSE IF st.special = "cancel" THEN NoSession
      ELSE startSession(st)

\* handleStartup that treats a cancel request as a startup message
handleStartupNoCancel(raw) ==
  LET st == startupOf(raw)
  IN  IF st.throws THEN startupFailed
      ELSE IF st.special = "ssl" THEN [NoSession EXCEPT !.writes = << SSLRefusal >>]
      ELSE startSession(st)

\* handleStartup(sock, raw, config), with handleStartupError for the exception:
\* what it writes, whether it ends the socket, and whether it creates the
\* ConnState (with which values)
handleStartup(raw) ==
  LET st == startupOf(raw)
  IN  IF st.throws THEN startupFailed
      ELSE IF st.special = "ssl" THEN [NoSession EXCEPT !.writes = << SSLRefusal >>]
      ELSE IF st.special = "cancel" THEN NoSession
      ELSE startSession(st)

(***************************************************************************)
(* The transport.  A client sends flights of bytes; a read delivers the    *)
(* first k bytes of the oldest flight, where k is one of the flight's cuts: *)
(* the byte counts at which the network may end a read.                    *)
(***************************************************************************)
ReadSizes(s) == IF wire[s] = << >> THEN {} ELSE Head(wire[s]).cuts

Delivered(s, k) == SubSeq(Head(wire[s]).bytes, 1, k)

AfterRead(s, k) ==
  LET f == Head(wire[s])
  IN  IF k = Len(f.bytes) THEN Tail(wire[s])
      ELSE << [bytes |-> SubSeq(f.bytes, k + 1, Len(f.bytes)),
               cuts |-> {c - k : c \in {d \in f.cuts : d > k}}] >> \o Tail(wire[s])

(***************************************************************************)
(* The actions.                                                            *)
(***************************************************************************)
\* data(sock, incoming) on a socket without ConnState: handleStartup
StartupRead(s) ==
  /\ pc = "idle"
  /\ s \notin connections
  /\ \E k \in ReadSizes(s) :
       LET h == handleStartup(Delivered(s, k))
       IN  /\ wire' = [wire EXCEPT ![s] = AfterRead(s, k)]
           /\ sockWrite(s, h.writes, 0)
           /\ sockEnd(s, h.end)
           /\ connections' = IF h.create THEN connections \cup {s} ELSE connections
           /\ dbName' = IF h.create THEN [dbName EXCEPT ![s] = h.dbName] ELSE dbName
           /\ expectedUser' = IF h.create THEN [expectedUser EXCEPT ![s] = h.expectedUser]
                              ELSE expectedUser
           /\ expectedPassword' = IF h.create
                                  THEN [expectedPassword EXCEPT ![s] = h.expectedPassword]
                                  ELSE expectedPassword
           /\ awaitingPassword' = IF h.create THEN [awaitingPassword EXCEPT ![s] = TRUE]
                                  ELSE awaitingPassword
           /\ authenticated' = IF h.create THEN [authenticated EXCEPT ![s] = FALSE]
                               ELSE authenticated
           /\ buffer' = IF h.create THEN [buffer EXCEPT ![s] = << >>] ELSE buffer
           /\ prepared' = IF h.create THEN [prepared EXCEPT ![s] = EmptyMap] ELSE prepared
           /\ portals' = IF h.create THEN [portals EXCEPT ![s] = EmptyMap] ELSE portals
  /\ UNCHANGED << env, pending, pc, cur, buf, iter, log, split >>

\* data(sock, incoming) on a socket with ConnState: append to the buffer and
\* enter processFrontendMessages
DataRead(s) ==
  /\ pc = "idle"
  /\ s \in connections
  /\ \E k \in ReadSizes(s) :
       /\ wire' = [wire EXCEPT ![s] = AfterRead(s, k)]
       /\ buffer' = [buffer EXCEPT ![s] = @ \o Delivered(s, k)]
       /\ buf' = buffer[s] \o Delivered(s, k)
  /\ pc' = "loop"
  /\ cur' = s
  /\ iter' = 0
  /\ UNCHANGED << env, session, connections, prepared, portals, awaitingPassword,
                  authenticated, ended, out, dropped, origin, pending, log, split >>

\* the frame at the head of buf: total is 1 + 4 + (len - 4)
frameTotal(b) == 1 + 4 + (getInt32(b, 1) - 4)

\* a loop condition that looks at the header only
frameReadyHeaderOnly(b) == Len(b) >= 5

\* the loop of processFrontendMessages goes on: at least 5 bytes are buffered
\* and the buffer is not shorter than the declared frame
frameReady(b) == Len(b) >= 5 /\ ~(Len(b) < frameTotal(b))

\* one iteration of the loop: slice the payload, call onMessage, advance
Dispatch ==
  /\ pc = "loop"
  /\ frameReady(buf)
  /\ iter < MaxIter
  /\ LET s       == cur
         total   == frameTotal(buf)
         payload == subarray(buf, 5, total)
         type    == fromCharCode(buf[1])
         e       == onMessage(s, type, buf[1], payload, buffer[s],
                              Len(buffer[s]) - Len(buf) + 5)
     IN  /\ log' = [log EXCEPT ![s] = Append(@, << type, payload >>)]
         /\ sockWrite(s, e.writes, Len(log[s]) + 1)
         /\ sockEnd(s, e.end)
         /\ prepared' = [prepared EXCEPT ![s] = e.prepared]
         /\ portals' = [portals EXCEPT ![s] = e.portals]
         /\ awaitingPassword' = [awaitingPassword EXCEPT ![s] = e.awaitingPassword]
         /\ authenticated' = [authenticated EXCEPT ![s] = e.authenticated]
         /\ pending' = pending \o e.spawn
         /\ IF e.throws
            THEN \* the exception leaves the callback: state.buffer keeps every byte
                 pc' = "idle" /\ buf' = << >> /\ iter' = 0
            ELSE pc' = "loop" /\ buf' = subarray(buf, total, Len(buf)) /\ iter' = iter + 1
  /\ UNCHANGED << env, session, wire, connections, buffer, cur, split >>

\* a loop exit that forgets the bytes of the incomplete frame
LoopExitDropsRemainder ==
  /\ pc = "loop"
  /\ ~frameReady(buf)
  /\ buffer' = [buffer EXCEPT ![cur] = << >>]
  /\ split' = [split EXCEPT ![cur] = @ \/ buf # << >>]
  /\ pc' = "idle"
  /\ buf' = << >>
  /\ iter' = 0
  /\ UNCHANGED << env, session, wire, connections, prepared, portals, awaitingPassword,
                  authenticated, ended, out, dropped, origin, pending, cur, log >>

\* the loop ends: state.buffer = buf
LoopExit ==
  /\ pc = "loop"
  /\ ~frameReady(buf)
  /\ buffer' = [buffer EXCEPT ![cur] = buf]
  /\ split' = [split EXCEPT ![cur] = @ \/ buf # << >>]
  /\ pc' = "idle"
  /\ buf' = << >>
  /\ iter' = 0
  /\ UNCHANGED << env, session, wire, connections, prepared, portals, awaitingPassword,
                  authenticated, ended, out, dropped, origin, pending, cur, log >>

\* what a suspended handler writes when loadDB has completed
resume(t) == IF t.kind = "describe" THEN resumeDescribe(t) ELSE resumeSimpleQuery(t)

\* a suspended handler resumes; the loads complete in any order
Resume ==
  /\ pc = "idle"
  /\ \E i \in 1..Len(pending) :
       /\ sockWrite(pending[i].sock, resume(pending[i]), pending[i].seq)
       /\ pending' = SubSeq(pending, 1, i - 1) \o SubSeq(pending, i + 1, Len(pending))
  /\ UNCHANGED << env, session, wire, connections, buffer, prepared, portals,
                  awaitingPassword, authenticated, ended, pc, cur, buf, iter, log, split >>

Next ==
  \/ \E s \in Socks : StartupRead(s)
  \/ \E s \in Socks : DataRead(s)
  \/ Dispatch
  \/ LoopExit
  \/ Resume


(***************************************************************************)
(* The clients: the frontend messages they build and what they send.       *)
(***************************************************************************)
\* a frame as the protocol lays it out: tag, length counting itself, payload
FrontendMsg(type, tagByte, payload) ==
  [type |-> type, payload |-> payload, wellFormed |-> TRUE,
   bytes |-> << tagByte >> \o be32(Len(payload) + 4) \o payload]

\* a 5-byte header that declares the length len, below 4
BadLength(type, tagByte, len) ==
  [type |-> type, payload |-> << >>, wellFormed |-> FALSE,
   bytes |-> << tagByte >> \o be32(len)]

PasswordMsg(pw) == FrontendMsg("p", 112, z(pw))
QueryMsg(sql) == FrontendMsg("Q", 81, z(sql))
SyncMsg == FrontendMsg("S", 83, << >>)
FlushMsg == FrontendMsg("H", 72, << >>)
TerminateMsg == FrontendMsg("X", 88, << >>)
ParseMsg(stmt, sql, nParams) ==
  FrontendMsg("P", 80, z(stmt) \o z(sql) \o be16(nParams)
                       \o (IF nParams > 0 THEN be32(OIDint4) ELSE << >>))
BindMsg(portal, stmt, nParams) ==
  FrontendMsg("B", 66, z(portal) \o z(stmt) \o be16(0) \o be16(nParams)
                       \o (IF nParams > 0 THEN be32(1) \o <<49>> ELSE << >>) \o be16(0))
DescribeMsg(kind, name) == FrontendMsg("D", 68, << kind >> \o z(name))
ExecuteMsg(portal) == FrontendMsg("E", 69, z(portal) \o be32(0))
CloseMsg(kind, name) == FrontendMsg("C", 67, << kind >> \o z(name))
\* a frame of a type the switch has no case for ('F', FunctionCall)
FunctionCallMsg == FrontendMsg("?", 70, << >>)

\* StartupMessage: length, protocol 3.0, the parameters, a zero byte
StartupMessage(user, database) ==
  LET body == be32(196608)
              \o (IF user = << >> THEN << >> ELSE z(KeyUser) \o z(user))
              \o (IF database = << >> THEN << >> ELSE z(KeyDatabase) \o z(database))
              \o << 0 >>
  IN  be32(Len(body) + 4) \o body

\* SSLRequest and the cancel request the server recognises: length 8, the code
SSLRequest == be32(8) \o be32(80877103)
CancelRequest == be32(8) \o be32(80877102)

\* the byte strings of the scenarios
UserU == <<117>>
UserV == <<118>>
PwGood == <<112, 119>>
PwBad == <<110, 111>>
DbD == <<100>>
TableT == <<116>>
StmtS == <<115>>
PortalP == <<112>>
SqlSelectOne == <<83, 69, 76, 69, 67, 84, 32, 49>>
SqlSelectT == <<83, 69, 76, 69, 67, 84, 32, 42, 32, 70, 82, 79, 77, 32, 116>>
SqlSelectX == <<83, 69, 76, 69, 67, 84, 32, 42, 32, 70, 82, 79, 77, 32, 120>>
SqlCountT == <<83, 69, 76, 69, 67, 84, 32, 99, 111, 117, 110, 116, 40, 42, 41, 32,
               70, 82, 79, 77, 32, 116>>
SqlBad == <<120>>
SqlBlank == <<32>>
StmtR == <<114>>

\* all sequences of at most n elements of the set S
RECURSIVE SeqsUpTo(_, _)
SeqsUpTo(S, n) ==
  IF n = 0 THEN {<< >>}
  ELSE LET shorter == SeqsUpTo(S, n - 1)
       IN  shorter \cup {Append(q, x) : q \in {r \in shorter : Len(r) = n - 1}, x \in S}

RECURSIVE concatBytes(_)
concatBytes(frames) ==
  IF frames = << >> THEN << >> ELSE Head(frames).bytes \o concatBytes(Tail(frames))

\* a flight: its bytes and the byte counts at which a read may end (the last
\* byte always among them)
Flight(bytes, cuts) ==
  [bytes |-> bytes, cuts |-> (cuts \cap 1..Len(bytes)) \cup {Len(bytes)}]

\* the ends of the frames in their concatenation
FrameEnds(frames) == {Len(concatBytes(SubSeq(frames, 1, i))) : i \in 1..Len(frames)}

\* reads that end at the end of a frame or two bytes into the next one
CoarseCuts(frames) == FrameEnds(frames) \cup {e + 2 : e \in FrameEnds(frames)}

\* reads that end at any byte
AllCuts(frames) == 1..Len(concatBytes(frames))

\* the flights of a client: each message of the startup phase in one read (the
\* client waits for the reply to it), then the frames, split at any byte or
\* coarsely
FlightsOf(hello, frames, anywhere) ==
  [i \in 1..Len(hello) |-> Flight(hello[i], {})]
  \o (IF frames = << >> THEN << >>
      ELSE << Flight(concatBytes(frames),
                     IF anywhere THEN AllCuts(frames) ELSE CoarseCuts(frames)) >>)

\* the state before any byte arrives, for a configuration and the clients' frames
InitWith(config, hello, frames, anywhere) ==
  /\ cfg = config
  /\ disk = "rows"
  /\ script = [s \in Socks |-> [i \in 1..Len(frames[s]) |->
                 [type |-> frames[s][i].type, payload |-> frames[s][i].payload,
                  wellFormed |-> frames[s][i].wellFormed]]]
  /\ wire = [s \in Socks |-> IF hello[s] = << >> THEN << >>
                            ELSE FlightsOf(hello[s], frames[s], anywhere)]
  /\ connections = {}
  /\ dbName = [s \in Socks |-> << >>]
  /\ buffer = [s \in Socks |-> << >>]
  /\ prepared = [s \in Socks |-> EmptyMap]
  /\ portals = [s \in Socks |-> EmptyMap]
  /\ awaitingPassword = [s \in Socks |-> FALSE]
  /\ expectedUser = [s \in Socks |-> << >>]
  /\ expectedPassword = [s \in Socks |-> << >>]
  /\ authenticated = [s \in Socks |-> FALSE]
  /\ ended = [s \in Socks |-> FALSE]
  /\ out = [s \in Socks |-> << >>]
  /\ dropped = [s \in Socks |-> FALSE]
  /\ origin = [s \in Socks |-> << >>]
  /\ pending = << >>
  /\ pc = "idle"
  /\ cur = "a"
  /\ buf = << >>
  /\ iter = 0
  /\ log = [s \in Socks |-> << >>]
  /\ split = [s \in Socks |-> FALSE]
  /\ codec = NoCall

\* only socket a has a client
Alone(x) == [s \in Socks |-> IF s = "a" THEN x ELSE << >>]

Configs ==
  {[authUser |-> u, authPassword |-> p, defaultDb |-> DbD] :
     u \in {<< >>, UserU}, p \in {<< >>, PwGood}}

\* the handshake and what may follow it, under every configuration
AuthAlphabet ==
  {PasswordMsg(PwGood), PasswordMsg(PwBad), QueryMsg(SqlSelectT), SyncMsg,
   ParseMsg(StmtS, SqlSelectOne, 0), BindMsg(PortalP, StmtS, 0),
   DescribeMsg(83, StmtS), ExecuteMsg(PortalP)}

Init ==
  \E config \in Configs, user \in {UserU, UserV}, frames \in SeqsUpTo(AuthAlphabet, MaxMsgs) :
    InitWith(config, Alone(<< StartupMessage(user, DbD) >>), Alone(frames), FALSE)

Spec == Init /\ [][Next]_vars


(***************************************************************************)
(* The frame reader's specification: one client that completes the         *)
(* handshake and then sends frames, well-formed ones and headers that      *)
(* declare a length below 4, split over the reads at any byte.             *)
(***************************************************************************)
FrameAlphabet ==
  {SyncMsg, FlushMsg, QueryMsg(SqlSelectOne), QueryMsg(SqlSelectT),
   ParseMsg(StmtS, SqlSelectT, 0),
   BadLength("S", 83, 0), BadLength("S", 83, -1), BadLength("Q", 81, -3)}

InitFrame ==
  \E body \in SeqsUpTo(FrameAlphabet, MaxFrames) :
    InitWith([authUser |-> UserU, authPassword |-> PwGood, defaultDb |-> DbD],
             Alone(<< StartupMessage(UserU, DbD) >>),
             Alone(<< PasswordMsg(PwGood) >> \o body), TRUE)

SpecFrame == InitFrame /\ [][Next]_vars


(***************************************************************************)
(* The Ready state's specification: one client that completes the          *)
(* handshake and then sends queries that succeed, queries that fail,       *)
(* frames of unknown types and commands that name what does not exist.     *)
(***************************************************************************)
Authenticating == [authUser |-> UserU, authPassword |-> PwGood, defaultDb |-> DbD]

QueryAlphabet ==
  {QueryMsg(SqlSelectT), QueryMsg(SqlSelectOne), QueryMsg(SqlCountT), QueryMsg(SqlSelectX),
   QueryMsg(SqlBad), QueryMsg(<< >>), QueryMsg(SqlBlank),
   FunctionCallMsg, PasswordMsg(PwGood), SyncMsg, ExecuteMsg(PortalP),
   ParseMsg(StmtS, SqlSelectT, 0), ParseMsg(StmtS, SqlSelectT, 1), BindMsg(PortalP, StmtR, 0)}

InitQuery ==
  \E body \in SeqsUpTo(QueryAlphabet, MaxMsgs) :
    InitWith(Authenticating, Alone(<< StartupMessage(UserU, DbD) >>),
             Alone(<< PasswordMsg(PwGood) >> \o body), FALSE)

SpecQuery == InitQuery /\ [][Next]_vars


(***************************************************************************)
(* The startup phase's specification: a client that sends SSL and cancel   *)
(* requests before, or instead of, its startup message, which may name no  *)
(* database.                                                               *)
(***************************************************************************)
InitStartup ==
  \E preamble \in SeqsUpTo({SSLRequest, CancelRequest}, MaxMsgs),
     startup \in {<< >>, << StartupMessage(UserU, DbD) >>, << StartupMessage(UserV, DbD) >>,
                  << StartupMessage(UserU, << >>) >>},
     frames \in SeqsUpTo({PasswordMsg(PwGood), QueryMsg(SqlSelectT)}, MaxMsgs) :
    /\ preamble \o startup # << >>
    /\ InitWith(Authenticating, Alone(preamble \o startup), Alone(frames), FALSE)

SpecStartup == InitStartup /\ [][Next]_vars


(***************************************************************************)
(* The extended protocol's specification: one client that completes the    *)
(* handshake, possibly prepares statement s and the unnamed statement and  *)
(* binds portal p to s in the same write, and then sends Parse, Bind,      *)
(* Describe and Execute frames, one frame to a write: statements           *)
(* redefined, parameters declared, names that do not exist.                *)
(***************************************************************************)
ExtAlphabet ==
  {ParseMsg(StmtS, SqlSelectOne, 0), ParseMsg(<< >>, SqlSelectT, 0),
   ParseMsg(StmtS, SqlSelectOne, 1),
   BindMsg(PortalP, << >>, 0), BindMsg(PortalP, StmtR, 0),
   BindMsg(PortalP, << >>, 1), BindMsg(PortalP, StmtR, 1),
   ExecuteMsg(PortalP), DescribeMsg(80, PortalP)}

\* the frames that prepare s as the query on t and the unnamed statement as
\* SELECT 1, and bind p to s
Bound == << ParseMsg(StmtS, SqlSelectT, 0), ParseMsg(<< >>, SqlSelectOne, 0),
            BindMsg(PortalP, StmtS, 0) >>

InitExt ==
  \E before \in {<< >>, Bound}, body \in SeqsUpTo(ExtAlphabet, MaxMsgs) :
    InitWith(Authenticating,
             Alone(<< StartupMessage(UserU, DbD),
                      concatBytes(<< PasswordMsg(PwGood) >> \o before) >>
                   \o [i \in 1..Len(body) |-> body[i].bytes]),
             Alone(<< >>), FALSE)

SpecExt == InitExt /\ [][Next]_vars


(***************************************************************************)
(* The portals' specification: one client that completes the handshake,    *)
(* possibly prepares statements and binds portal p in the same write, and  *)
(* then sends Describe, Execute, Sync, Flush and Close frames, one frame   *)
(* to a write: names that resolve and names that do not, a statement whose *)
(* table does not exist.                                                   *)
(***************************************************************************)
PortalAlphabet ==
  {DescribeMsg(83, StmtS), DescribeMsg(83, << >>), DescribeMsg(80, PortalP),
   DescribeMsg(88, StmtS), ExecuteMsg(PortalP), ExecuteMsg(StmtR),
   SyncMsg, FlushMsg, CloseMsg(83, StmtS), CloseMsg(80, PortalP),
   ParseMsg(StmtS, SqlSelectX, 0)}

\* the frames that prepare s as SELECT 1 and bind p to s
BoundOne == << ParseMsg(StmtS, SqlSelectOne, 0), BindMsg(PortalP, StmtS, 0) >>

InitPortal ==
  \E before \in {<< >>, Bound, BoundOne,
                  Bound \o << CloseMsg(83, StmtS), ParseMsg(StmtS, SqlSelectOne, 0) >>},
     body \in SeqsUpTo(PortalAlphabet, MaxMsgs) :
    InitWith(Authenticating,
             Alone(<< StartupMessage(UserU, DbD),
                      concatBytes(<< PasswordMsg(PwGood) >> \o before) >>
                   \o [i \in 1..Len(body) |-> body[i].bytes]),
             Alone(<< >>), FALSE)

SpecPortal == InitPortal /\ [][Next]_vars


(***************************************************************************)
(* The closing specification: one client that sends a password, right or   *)
(* wrong, and then queries, a Parse, Sync and Terminate, with more frames  *)
(* after the one that closes the socket.                                   *)
(***************************************************************************)
CloseAlphabet ==
  {PasswordMsg(PwGood), TerminateMsg, QueryMsg(SqlSelectT), QueryMsg(SqlSelectOne),
   ParseMsg(StmtS, SqlSelectT, 0), SyncMsg}

InitClose ==
  \E pw \in {PwGood, PwBad}, body \in SeqsUpTo(CloseAlphabet, MaxMsgs) :
    InitWith(Authenticating, Alone(<< StartupMessage(UserU, DbD) >>),
             Alone(<< PasswordMsg(pw) >> \o body), FALSE)

SpecClose == InitClose /\ [][Next]_vars


(***************************************************************************)
(* The specification of two connections: client a sends a password, right  *)
(* or wrong, and then queries, a Parse and Terminate; client b either is   *)
(* refused at startup or authenticates, prepares s, binds p and sends a    *)
(* query.  Their reads interleave.                                         *)
(***************************************************************************)
TwoAlphabet ==
  {QueryMsg(SqlSelectT), ParseMsg(StmtS, SqlSelectOne, 0), TerminateMsg}

\* what client b sends, read by read
Neighbours ==
  { << StartupMessage(UserV, DbD) >>,
    << StartupMessage(UserU, TableT),
       concatBytes(<< PasswordMsg(PwGood), ParseMsg(StmtS, SqlSelectT, 0),
                      BindMsg(PortalP, StmtS, 0) >>),
       QueryMsg(SqlSelectT).bytes >> }

InitTwo ==
  \E pw \in {PwGood, PwBad}, body \in SeqsUpTo(TwoAlphabet, MaxMsgs), other \in Neighbours :
    InitWith(Authenticating,
             [s \in Socks |-> IF s = "a" THEN << StartupMessage(UserU, DbD) >> ELSE other],
             Alone(<< PasswordMsg(pw) >> \o body), FALSE)

SpecTwo == InitTwo /\ [][Next]_vars


(***************************************************************************)
(* The builders' specification: the server calls one builder of            *)
(* protocol/messages.ts with arguments drawn from small sets: texts, row   *)
(* values (null, empty, one and two bytes) and up to MaxCols columns of    *)
(* the types int4 and text.                                                *)
(***************************************************************************)
Calls ==
  LET texts  == {<< >>, <<97>>, <<105, 100>>, <<83, 69, 76, 69, 67, 84, 32, 49>>}
      cols   == {ColumnSpec(n, t[1], t[2]) :
                   n \in {<< >>, <<105, 100>>, <<118>>},
                   t \in {<< OIDint4, 4 >>, << OIDtext, -1 >>}}
      values == {[null |-> TRUE, v |-> << >>], [null |-> FALSE, v |-> << >>],
                 [null |-> FALSE, v |-> <<49>>], [null |-> FALSE, v |-> <<97, 98>>]}
      plain(fn) == Call(fn, << >>, << >>, 0, 0, << >>, << >>)
  IN  {plain(fn) : fn \in {"AuthenticationOk", "EmptyQueryResponse", "ParseComplete",
                           "BindComplete", "CloseComplete", "NoData"}}
      \cup {Call("ParameterStatus", k, v, 0, 0, << >>, << >>) : k \in texts, v \in texts}
      \cup {Call("BackendKeyData", << >>, << >>, n, m, << >>, << >>) :
              n \in {0, 4660}, m \in {-1, 2147483647}}
      \cup {Call("ReadyForQuery", << st >>, << >>, 0, 0, << >>, << >>) : st \in {73, 84, 69}}
      \cup {Call(fn, t, << >>, 0, 0, << >>, << >>) :
              fn \in {"CommandComplete", "NoticeResponse"}, t \in texts}
      \cup {Call("ErrorResponse", t, c, 0, 0, << >>, << >>) :
              t \in texts, c \in {<<88, 88, 48, 48, 48>>, <<50, 56, 80, 48, 49>>}}
      \cup {Call("RowDescription", << >>, << >>, 0, 0, cs, << >>) :
              cs \in SeqsUpTo(cols, MaxCols)}
      \cup {Call("DataRow", << >>, << >>, 0, 0, << >>, vs) : vs \in SeqsUpTo(values, MaxCols)}

\* the server calls a builder
Build ==
  /\ ~codec.built
  /\ \E c \in Calls : codec' = [call |-> c, bytes |-> build(c), built |-> TRUE]
  /\ UNCHANGED << cfg, disk, script, wire, connections, session, buffer, prepared, portals,
                  awaitingPassword, authenticated, ended, out, dropped, origin, pending,
                  pc, cur, buf, iter, log, split >>

InitCodec == InitWith(Authenticating, Alone(<< >>), Alone(<< >>), FALSE)

SpecCodec == InitCodec /\ [][Build]_vars


(***************************************************************************)
(* The split startup's specification: a client whose byte stream is the    *)
(* StartupMessage, its password and up to MaxMsgs frames, and whose        *)
(* transport delivers the StartupMessage in one read, in two reads cut at  *)
(* any byte, or in one read together with the password that follows it.    *)
(***************************************************************************)
InitSplit ==
  LET sm == StartupMessage(UserU, DbD)
  IN  \E body \in SeqsUpTo({QueryMsg(SqlSelectT), SyncMsg}, MaxMsgs) :
        \/ \E hello \in {<< sm >>}
                        \cup {<< SubSeq(sm, 1, k), SubSeq(sm, k + 1, Len(sm)) >> :
                                k \in 1..(Len(sm) - 1)} :
             InitWith(Authenticating, Alone(hello),
                      Alone(<< PasswordMsg(PwGood) >> \o body), FALSE)
        \/ InitWith(Authenticating, Alone(<< sm \o PasswordMsg(PwGood).bytes >>),
                    Alone(body), FALSE)

SpecSplit == InitSplit /\ [][Next]_vars

(***************************************************************************)
(* The fair specification of a session that may close: the loop over the   *)
(* buffered frames runs to its end once started (it is synchronous code),  *)
(* and every storage load that was started completes.                      *)
(***************************************************************************)
\* the part of a Dispatch step that the log shows: the frame at the head of the
\* buffer is logged.  It is enabled exactly when Dispatch is, and among the
\* steps of Next exactly the Dispatch steps are steps of it.
FrameDispatched ==
  /\ pc = "loop" /\ frameReady(buf) /\ iter < MaxIter
  /\ log' = [log EXCEPT ![cur] = Append(@, << fromCharCode(buf[1]),
                                              subarray(buf, 5, frameTotal(buf)) >>)]

\* the part of a Resume step that the suspended handlers show: one of them is
\* gone.  It is enabled exactly when Resume is, and among the steps of Next
\* exactly the Resume steps are steps of it.
LoadCompleted ==
  /\ pc = "idle"
  /\ \E i \in 1..Len(pending) :
       pending' = SubSeq(pending, 1, i - 1) \o SubSeq(pending, i + 1, Len(pending))

SpecLive ==
  InitClose /\ [][Next]_vars
  /\ WF_log(FrameDispatched) /\ WF_vars(LoopExit) /\ WF_pending(LoadCompleted)

(***************************************************************************)
(* Properties of the frame reader and of the order of the replies.         *)
(***************************************************************************)
\* C1: on every connection the replies are written in the order in which the
\* frontend messages were dispatched: no message of the reply to a later
\* dispatch precedes a message of the reply to an earlier one.
C1_RepliesInDispatchOrder ==
  \A s \in Socks : \A i, j \in 1..Len(origin[s]) :
    i < j => origin[s][i] <= origin[s][j]

\* the (type, payload) pairs of the frames the client of s sends
ScriptPairs(s) == [i \in 1..Len(script[s]) |-> << script[s][i].type, script[s][i].payload >>]

AllWellFormed(s) == \A i \in 1..Len(script[s]) : script[s][i].wellFormed

\* C2: chunking invariance.  When every frame the client sends is well-formed,
\* the callback is invoked with the frames sent so far, in order, however the
\* bytes are split over the reads; once all bytes are delivered it has been
\* invoked exactly once per frame and the buffer is empty.
C2_ChunkingInvariance ==
  \A s \in connections :
    AllWellFormed(s) =>
      /\ Len(log[s]) <= Len(script[s])
      /\ log[s] = SubSeq(ScriptPairs(s), 1, Len(log[s]))
      /\ (wire[s] = << >> /\ pc = "idle") => (log[s] = ScriptPairs(s) /\ buffer[s] = << >>)

\* C2 witness: three well-formed frames have been dispatched, all bytes are
\* delivered, and some read ended in the middle of a frame
C2_Witness ==
  /\ AllWellFormed("a") /\ wire["a"] = << >> /\ pc = "idle" /\ split["a"]
  /\ Len(log["a"]) >= 3 /\ log["a"] = ScriptPairs("a")

\* the buffered bytes do not hold a complete frame: fewer than 5 bytes, or
\* fewer than 5 + the declared payload size
Incomplete(b) == Len(b) < 5 \/ Len(b) < 5 + (getInt32(b, 1) - 4)

\* C3: when the buffered bytes do not hold a complete frame the reader invokes
\* no callback, writes nothing and leaves exactly those bytes in the session
\* buffer, and the next read is appended to them.
C3_IncompleteFrameStaysBuffered ==
  [][ /\ (pc = "loop" /\ Incomplete(buf)) =>
           (pc' = "idle" /\ log' = log /\ out' = out /\ buffer'[cur] = buf)
      /\ (pc = "idle" /\ pc' = "loop") =>
           \E k \in ReadSizes(cur') : buf' = buffer[cur'] \o Delivered(cur', k) ]_vars

\* C3 witness: a read has ended with the header of a frame buffered but not
\* its whole payload, after an earlier frame was dispatched
C3_Witness ==
  /\ pc = "idle" /\ Len(buffer["a"]) >= 5 /\ Incomplete(buffer["a"])
  /\ log["a"] # << >> /\ split["a"]

\* C4: a frame that declares a length below 4 is fatal: no callback is invoked
\* for it, the processing of the buffer stops and the socket is closed.
C4_BadLengthIsFatal ==
  [][ (pc = "loop" /\ Len(buf) >= 5 /\ getInt32(buf, 1) < 4) =>
        (log' = log /\ pc' = "idle" /\ ended'[cur]) ]_vars


(***************************************************************************)
(* Properties of the handshake and of the gate for unauthenticated         *)
(* sessions.                                                               *)
(***************************************************************************)
\* the tags and codes of the messages written to s
Replies(s) == [i \in 1..Len(out[s]) |-> << out[s][i].tag, out[s][i].code >>]

\* the handshake of a client that sends the accepted password first
GoodHandshake ==
  << << "R", "3" >>, << "R", "0" >>, << "S", "16.0" >>, << "S", "UTF8" >>, << "S", "on" >>,
     << "S", "UTC" >>, << "K", "" >>, << "Z", "I" >> >>

\* C5: with user u and password pw configured, the startup of user u leaves
\* the session awaiting the password, unauthenticated, with one
\* AuthenticationCleartextPassword written; the password message pw then makes
\* it authenticated and no longer awaiting and writes AuthenticationOk, the
\* four ParameterStatus, BackendKeyData and ReadyForQuery(Idle), in this order.
C5_AuthSuccessFlow ==
  (cfg.authUser = UserU /\ cfg.authPassword = PwGood /\ "a" \in connections) =>
    /\ log["a"] = << >> =>
         /\ awaitingPassword["a"] /\ ~authenticated["a"]
         /\ out["a"] = << AuthenticationCleartextPassword >>
    /\ (log["a"] # << >> /\ log["a"][1] = << "p", z(PwGood) >>) =>
         /\ authenticated["a"] /\ ~awaitingPassword["a"]
         /\ Len(out["a"]) >= Len(GoodHandshake)
         /\ SubSeq(Replies("a"), 1, Len(GoodHandshake)) = GoodHandshake
         /\ [i \in 3..6 |-> out["a"][i].text] =
              [i \in 3..6 |-> << "server_version", "client_encoding",
                                 "standard_conforming_strings", "TimeZone" >>[i - 2]]
         /\ Len(log["a"]) = 1 => Len(out["a"]) = Len(GoodHandshake)

\* C5 witness: the accepted password was the only message and the session is
\* authenticated
C5_Witness ==
  /\ cfg.authUser = UserU /\ cfg.authPassword = PwGood /\ "a" \in connections
  /\ log["a"] = << << "p", z(PwGood) >> >> /\ authenticated["a"]
  /\ Len(out["a"]) = 8

\* the step dispatches a password message that differs from the expected one
WrongPasswordStep ==
  /\ pc = "loop" /\ "a" \in connections /\ ~ended["a"]
  /\ awaitingPassword["a"] /\ expectedPassword["a"] = PwGood
  /\ log'["a"] = Append(log["a"], << "p", z(PwBad) >>)

StartupPending(user) ==
  /\ "a" \notin connections /\ out["a"] = << >> /\ ~ended["a"]
  /\ wire["a"] # << >> /\ Head(wire["a"]).bytes = StartupMessage(user, DbD)

\* C7: when a username is configured and the startup message names another
\* user, the server writes one ErrorResponse of code 28P01 (no ReadyForQuery,
\* no password request), closes the socket and creates no session state.
C7_UsernameMismatch ==
  [][ /\ (cfg.authUser = UserU /\ StartupPending(UserV)) =>
           (/\ Replies("a")' = << << "E", "28P01" >> >>
            /\ out'["a"][1].name = UserV
            /\ ended'["a"]
            /\ "a" \notin connections')
      /\ (cfg.authUser = UserU /\ "a" \notin connections /\ ended["a"]) =>
           (out'["a"] = out["a"] /\ ended'["a"] /\ "a" \notin connections') ]_vars

\* C7 witness: the startup of the other user was refused and the bytes the
\* client sent after it have been read
C7_Witness ==
  /\ cfg.authUser = UserU /\ "a" \notin connections /\ ended["a"]
  /\ Replies("a") = << << "E", "28P01" >> >> /\ out["a"][1].name = UserV
  /\ script["a"] # << >> /\ wire["a"] = << >>

\* C8: when the configuration lacks the username or the password, the
\* startup message takes the session straight to Ready: authenticated, with
\* AuthenticationOk ... ReadyForQuery(Idle) written and no password request.
C8_AuthGateSkipped ==
  ((cfg.authUser = << >> \/ cfg.authPassword = << >>) /\ "a" \in connections) =>
    /\ authenticated["a"] /\ ~awaitingPassword["a"]
    /\ Len(out["a"]) >= 7
    /\ SubSeq(Replies("a"), 1, 7) = Tail(GoodHandshake)

\* the types of the messages that issue a query
QueryTypes == {"Q", "P", "B", "D", "E"}

\* the step dispatches a message of one of the types on the unauthenticated,
\* open session a
UnauthenticatedStep(types) ==
  /\ pc = "loop" /\ "a" \in connections /\ ~authenticated["a"] /\ ~ended["a"]
  /\ Len(log'["a"]) = Len(log["a"]) + 1
  /\ log'["a"][Len(log'["a"])][1] \in types

\* C9 as stated: a query on a session that is not authenticated closes the
\* connection, and nothing more is written on it.
C9_QueryBeforeAuthIsFatal ==
  [][ UnauthenticatedStep(QueryTypes) => (ended'["a"] /\ out'["a"] = out["a"]) ]_vars

\* C9 amended: a session on which only queries were issued before any password
\* message is still open and unauthenticated; each query was answered with
\* ErrorResponse(28P01) and ReadyForQuery(Error) and its handler did not run
\* (no statement, no portal, no load of the database).
C9_QueryBeforeAuthIsRejected ==
  ("a" \in connections /\ \A i \in 1..Len(log["a"]) : log["a"][i][1] \in QueryTypes) =>
    /\ ~ended["a"] /\ ~authenticated["a"]
    /\ Replies("a") = << << "R", "3" >> >>
                      \o [i \in 1..(2 * Len(log["a"])) |->
                            IF i % 2 = 1 THEN << "E", "28P01" >> ELSE << "Z", "E" >>]
    /\ prepared["a"] = EmptyMap /\ portals["a"] = EmptyMap /\ pending = << >>

\* C9 witness: two queries were dispatched before any password message
C9_Witness ==
  /\ "a" \in connections /\ ~authenticated["a"] /\ ~ended["a"]
  /\ Len(log["a"]) = 2 /\ \A i \in 1..2 : log["a"][i][1] \in QueryTypes
  /\ Len(out["a"]) = 5

\* C10: a message other than a password message dispatched on a session that
\* is not authenticated is answered with ErrorResponse then
\* ReadyForQuery(Error); the socket is not closed, no handler runs, and the
\* session stays unauthenticated and awaiting the password.
C10_UnauthenticatedIsRecoverable ==
  [][ UnauthenticatedStep({"Q", "P", "B", "D", "E", "S", "H", "C", "X", "?"}) =>
        /\ out'["a"] = out["a"] \o << ErrorResponse("Authentication required", << >>, "28P01"),
                                      ReadyForQuery("E") >>
        /\ ~ended'["a"]
        /\ prepared' = prepared /\ portals' = portals /\ pending' = pending
        /\ ~authenticated'["a"] /\ awaitingPassword'["a"] ]_vars

\* C10 witness: a session that was refused a message and then accepted the
\* password
C10_Witness ==
  /\ "a" \in connections /\ authenticated["a"] /\ ~ended["a"]
  /\ Len(log["a"]) = 2 /\ log["a"][1][1] # "p" /\ log["a"][2] = << "p", z(PwGood) >>
  /\ Len(out["a"]) = 10


(***************************************************************************)
(* Properties of the Ready state.                                          *)
(***************************************************************************)
\* the step dispatches, on the authenticated open session a, a frame whose
\* type is one of the given ones
ReadyStep(types) ==
  /\ pc = "loop" /\ "a" \in connections /\ authenticated["a"] /\ ~ended["a"]
  /\ Len(log'["a"]) = Len(log["a"]) + 1
  /\ log'["a"][Len(log'["a"])][1] \in types

\* the tables and the flags of the sessions
Tables == << prepared, portals, awaitingPassword, authenticated >>

\* C11: in the Ready state a frame whose type is none of Q, P, B, D, E, S, H,
\* C, X is answered with exactly ErrorResponse then ReadyForQuery(Error); the
\* statement and portal tables and the authentication flags do not change and
\* the socket stays open.
C11_UnknownTypeIsRecoverable ==
  [][ ReadyStep({"?", "p"}) =>
        /\ Len(out'["a"]) = Len(out["a"]) + 2
        /\ SubSeq(out'["a"], 1, Len(out["a"])) = out["a"]
        /\ out'["a"][Len(out["a"]) + 1].tag = "E"
        /\ out'["a"][Len(out["a"]) + 2] = ReadyForQuery("E")
        /\ Tables' = Tables
        /\ ~ended'["a"] ]_vars

\* C11 witness: a frame of an unknown type was answered on a session that
\* holds a prepared statement
C11_Witness ==
  /\ authenticated["a"] /\ ~ended["a"] /\ prepared["a"] # EmptyMap
  /\ Len(log["a"]) = 3 /\ log["a"][3][1] = "?"
  /\ out["a"][Len(out["a"])] = ReadyForQuery("E")


(***************************************************************************)
(* Properties of the startup phase.                                        *)
(***************************************************************************)
\* socket a, open and without session, reads the given bytes next
FirstRead(bytes) ==
  /\ pc = "idle" /\ "a" \notin connections /\ ~ended["a"]
  /\ wire["a"] # << >> /\ Head(wire["a"]).bytes = bytes

\* the session state of every socket
Sessions == << connections, session, buffer, Tables >>

\* C12: the 8-byte SSLRequest is answered with the single byte 'N'; no session
\* state is created and the socket stays open without session, so that a
\* StartupMessage read next is processed as a normal startup.
C12_SSLRequestRefused ==
  [][ /\ FirstRead(SSLRequest) =>
           (/\ out'["a"] = Append(out["a"], SSLRefusal)
            /\ ~ended'["a"]
            /\ Sessions' = Sessions)
      /\ FirstRead(StartupMessage(UserU, DbD)) =>
           (/\ out'["a"] = Append(out["a"], AuthenticationCleartextPassword)
            /\ ~ended'["a"]
            /\ "a" \in connections' /\ awaitingPassword'["a"] /\ ~authenticated'["a"]
            /\ expectedUser'["a"] = UserU /\ dbName'["a"] = DbD) ]_vars

\* C12 witness: SSL was refused and the startup message that followed was
\* accepted
C12_Witness ==
  /\ "a" \in connections /\ ~ended["a"] /\ awaitingPassword["a"]
  /\ out["a"] = << SSLRefusal, AuthenticationCleartextPassword >>

\* C13: the 8-byte cancel request is ignored: nothing is written, the socket
\* is not closed and no session state is created or changed.
C13_CancelRequestIgnored ==
  [][ FirstRead(CancelRequest) =>
        (out' = out /\ ended' = ended /\ Sessions' = Sessions /\ pending' = pending) ]_vars

\* C13 witness: everything the client sent (cancel requests only) was read and
\* the socket is open, silent and without session
C13_Witness ==
  /\ wire["a"] = << >> /\ out["a"] = << >> /\ ~ended["a"] /\ "a" \notin connections
  /\ ~dropped["a"]

\* the positions in out of the messages written for the q-th dispatch on s
ReplyPositions(s, q) == {i \in 1..Len(out[s]) : origin[s][i] = q}

\* the messages written for the q-th dispatch on s, in the order written
RECURSIVE ReplyFrom(_, _, _)
ReplyFrom(s, q, i) ==
  IF i > Len(out[s]) THEN << >>
  ELSE (IF origin[s][i] = q THEN << out[s][i] >> ELSE << >>) \o ReplyFrom(s, q, i + 1)

Reply(s, q) == ReplyFrom(s, q, 1)

\* the positions are consecutive: nothing else was written in between
Consecutive(S) == \A i, j \in S : \A k \in i..j : k \in S

\* RowDescription, n DataRows, CommandComplete(SELECT n), ReadyForQuery(Idle)
IsResultOf(g, n) ==
  /\ Len(g) = n + 3
  /\ g[1].tag = "T"
  /\ \A i \in 2..(n + 1) : g[i].tag = "D"
  /\ g[n + 2] = CommandComplete(n)
  /\ g[n + 3] = ReadyForQuery("I")

\* ErrorResponse, ReadyForQuery(Error)
IsFailure(g) == Len(g) = 2 /\ g[1].tag = "E" /\ g[2] = ReadyForQuery("E")

\* the SQL text of a Query payload
TextOf(payload) == SubSeq(payload, 1, Len(payload) - 1)

\* the number of rows the queries of the scenarios return from the data
\* directory (t has two rows), -1 for the queries that fail
RowsOf(sql) ==
  CASE sql = SqlSelectT -> 2
    [] sql = SqlSelectOne -> 1
    [] sql = SqlCountT -> 1
    [] OTHER -> -1

\* everything the client sent was processed and every load has completed
Quiescent(s) == wire[s] = << >> /\ pc = "idle" /\ pending = << >>

\* the q-th dispatch on s is a Query with a text that is not blank
IsQuery(s, q) == log[s][q][1] = "Q" /\ trim(TextOf(log[s][q][2])) # << >>

\* C14: the reply to a Simple Query is one burst, nothing else written in
\* between: for a query that succeeds exactly RowDescription, one DataRow per
\* row, CommandComplete and ReadyForQuery(Idle); for a query that fails exactly
\* ErrorResponse and ReadyForQuery(Error).  No RowDescription or DataRow is
\* followed by an ErrorResponse.
C14_SimpleQueryBurst ==
  \A q \in 1..Len(log["a"]) :
    IsQuery("a", q) =>
      LET g == Reply("a", q)
          n == RowsOf(TextOf(log["a"][q][2]))
      IN  /\ Consecutive(ReplyPositions("a", q))
          /\ g # << >> => IF n >= 0 THEN IsResultOf(g, n) ELSE IsFailure(g)
          /\ (Quiescent("a") /\ ~ended["a"]) => g # << >>

\* C14 witness: a query that failed and a query that returned two rows were
\* both answered
C14_Witness ==
  /\ Quiescent("a") /\ Len(log["a"]) = 3
  /\ IsQuery("a", 2) /\ IsFailure(Reply("a", 2))
  /\ IsQuery("a", 3) /\ IsResultOf(Reply("a", 3), 2)

\* the payload of the frame the step dispatches on socket a
Dispatched == log'["a"][Len(log'["a"])][2]

\* C15: a Query whose text is empty or only white space is answered with
\* exactly EmptyQueryResponse then ReadyForQuery(Idle), no ErrorResponse, and
\* the query engine is not invoked: no load of the database is started.
C15_EmptyQuery ==
  [][ (ReadyStep({"Q"}) /\ TextOf(Dispatched) \in {<< >>, SqlBlank}) =>
        /\ out'["a"] = out["a"] \o << EmptyQueryResponse, ReadyForQuery("I") >>
        /\ pending' = pending
        /\ Tables' = Tables /\ ~ended'["a"] ]_vars

\* C15 witness: an empty and a blank Query were answered, and nothing else
\* was written after the handshake
C15_Witness ==
  /\ Quiescent("a") /\ Len(log["a"]) = 3
  /\ log["a"][2] = << "Q", z(<< >>) >> /\ log["a"][3] = << "Q", z(SqlBlank) >>
  /\ Len(out["a"]) = Len(GoodHandshake) + 4
  /\ \A i \in 1..2 : Reply("a", i + 1) = << EmptyQueryResponse, ReadyForQuery("I") >>

\* the q-th dispatch on s is a command that is valid whatever came before it:
\* Sync, a query that succeeds, or the Parse of a statement without parameters
IsValidCommand(s, q) ==
  \/ log[s][q] = << "S", << >> >>
  \/ (log[s][q][1] = "Q" /\ RowsOf(TextOf(log[s][q][2])) >= 0)
  \/ log[s][q] = << "P", ParseMsg(StmtS, SqlSelectT, 0).payload >>

\* the reply to the q-th dispatch on s is the normal reply to that command
IsNormalReply(s, q) ==
  LET g == Reply(s, q)
  IN  CASE log[s][q][1] = "S" -> g = << ReadyForQuery("I") >>
        [] log[s][q][1] = "Q" -> IsResultOf(g, RowsOf(TextOf(log[s][q][2])))
        [] OTHER -> g = << ParseComplete >> /\ StmtS \in DOMAIN prepared[s]

\* C16: an error reply (bad SQL, unknown relation, parameters, unknown
\* statement or portal, unknown message type) leaves the socket open and the
\* session authenticated, and the valid command that follows it on the same
\* connection gets its normal reply.
C16_ErrorsAreRecoverable ==
  ("a" \in connections /\ log["a"] # << >>) =>
    /\ ~ended["a"] /\ authenticated["a"]
    /\ Quiescent("a") =>
         \A q \in 3..Len(log["a"]) :
           (IsFailure(Reply("a", q - 1)) /\ IsValidCommand("a", q)) => IsNormalReply("a", q)

\* C16 witness: an Execute of a portal that does not exist was answered with
\* an error and the query after it with its two rows
C16_Witness ==
  /\ Quiescent("a") /\ ~ended["a"] /\ authenticated["a"] /\ Len(log["a"]) = 3
  /\ log["a"][2][1] = "E" /\ IsFailure(Reply("a", 2))
  /\ log["a"][3] = << "Q", z(SqlSelectT) >> /\ IsNormalReply("a", 3)

(***************************************************************************)
(* Properties of the extended protocol.                                    *)
(***************************************************************************)
\* C17: a Parse with paramCount 0 stores the SQL text under the statement
\* name, in place of the text the name had (the empty name included), leaves
\* the portals and every other statement as they are, and is answered with
\* ParseComplete only.
C17_ParseStores ==
  [][ \A stmt \in {StmtS, << >>}, sql \in {SqlSelectT, SqlSelectOne} :
        (ReadyStep({"P"}) /\ Dispatched = ParseMsg(stmt, sql, 0).payload) =>
          /\ DOMAIN prepared'["a"] = DOMAIN prepared["a"] \cup {stmt}
          /\ prepared'["a"][stmt] = sql
          /\ \A other \in DOMAIN prepared["a"] \ {stmt} :
               prepared'["a"][other] = prepared["a"][other]
          /\ portals' = portals
          /\ out'["a"] = Append(out["a"], ParseComplete) ]_vars

\* C17 witness: statement s, prepared as the query on t and bound, and the
\* unnamed statement, prepared as SELECT 1, were both prepared again with the
\* other text
C17_Witness ==
  /\ Len(log["a"]) = 6
  /\ log["a"][2] = << "P", ParseMsg(StmtS, SqlSelectT, 0).payload >>
  /\ log["a"][3] = << "P", ParseMsg(<< >>, SqlSelectOne, 0).payload >>
  /\ log["a"][5] = << "P", ParseMsg(StmtS, SqlSelectOne, 0).payload >>
  /\ log["a"][6] = << "P", ParseMsg(<< >>, SqlSelectT, 0).payload >>
  /\ prepared["a"][StmtS] = SqlSelectOne /\ prepared["a"][<< >>] = SqlSelectT
  /\ portals["a"][PortalP] = StmtS

\* the step appends to the replies of socket a an ErrorResponse of the given
\* message and a ReadyForQuery(Error), and changes no table and no flag
RejectedWith(message) ==
  /\ Len(out'["a"]) = Len(out["a"]) + 2
  /\ SubSeq(out'["a"], 1, Len(out["a"])) = out["a"]
  /\ out'["a"][Len(out["a"]) + 1].tag = "E"
  /\ out'["a"][Len(out["a"]) + 1].text = message
  /\ out'["a"][Len(out["a"]) + 2] = ReadyForQuery("E")
  /\ Tables' = Tables

\* the step dispatches a Parse that declares a parameter
ParseWithParameter ==
  ReadyStep({"P"}) /\ Dispatched = ParseMsg(StmtS, SqlSelectOne, 1).payload

\* the step dispatches a Bind of the statement that carries a parameter value
BindWithParameter(stmt) ==
  ReadyStep({"B"}) /\ Dispatched = BindMsg(PortalP, stmt, 1).payload

\* C18 as stated: a Parse with a parameter and every Bind with a parameter
\* value are answered with ErrorResponse("parameters not supported ...") and
\* ReadyForQuery(Error), and change no statement and no portal.
C18_ParametersRejected ==
  [][ (ParseWithParameter \/ \E stmt \in {StmtR, << >>} : BindWithParameter(stmt)) =>
        RejectedWith("parameters not supported in prepared statements") ]_vars

\* C18 amended: a Parse with a parameter, and a Bind with a parameter value
\* that names an existing statement, are answered with
\* ErrorResponse("parameters not supported ...") and ReadyForQuery(Error); a
\* Bind with a parameter value that names an unknown statement is answered
\* with ErrorResponse("prepared statement ... does not exist") and
\* ReadyForQuery(Error); none of them changes a statement or a portal.
C18_ParametersRejectedIfStatementExists ==
  [][ /\ ParseWithParameter =>
           RejectedWith("parameters not supported in prepared statements")
      /\ \A stmt \in {StmtR, << >>} :
           BindWithParameter(stmt) =>
             IF stmt \in DOMAIN prepared["a"]
             THEN RejectedWith("parameters not supported in prepared statements")
             ELSE RejectedWith("prepared statement does not exist") ]_vars

\* C18 witness: with s and the unnamed statement prepared and p bound to s, a
\* Parse of s with a parameter and a Bind of p to the unnamed statement with a
\* parameter value were both refused, and s and p are what they were
C18_Witness ==
  /\ Quiescent("a") /\ Len(log["a"]) = 6
  /\ log["a"][4] = << "B", BindMsg(PortalP, StmtS, 0).payload >>
  /\ log["a"][5] = << "P", ParseMsg(StmtS, SqlSelectOne, 1).payload >>
  /\ log["a"][6] = << "B", BindMsg(PortalP, << >>, 1).payload >>
  /\ IsFailure(Reply("a", 5)) /\ IsFailure(Reply("a", 6))
  /\ prepared["a"][StmtS] = SqlSelectT /\ portals["a"][PortalP] = StmtS

\* the step dispatches a Bind of portal p to the statement, without parameters
BindOf(stmt) == ReadyStep({"B"}) /\ Dispatched = BindMsg(PortalP, stmt, 0).payload

\* C19: a Bind that names an unknown statement is answered with ErrorResponse
\* then ReadyForQuery(Error) and leaves the portals as they are; a Bind
\* without parameters that names an existing statement stores the statement's
\* name under the portal's name, in place of what the portal was bound to, and
\* is answered with BindComplete only.
C19_BindNeedsStatement ==
  [][ \A stmt \in {StmtS, StmtR, << >>} :
        BindOf(stmt) =>
          IF stmt \in DOMAIN prepared["a"]
          THEN /\ portals'["a"] = [n \in DOMAIN portals["a"] \cup {PortalP} |->
                                     IF n = PortalP THEN stmt ELSE portals["a"][n]]
               /\ prepared' = prepared
               /\ out'["a"] = Append(out["a"], BindComplete)
          ELSE RejectedWith("prepared statement does not exist") ]_vars

\* C19 witness: portal p, bound to s, was refused a Bind to the unknown
\* statement r and then bound to the unnamed statement
C19_Witness ==
  /\ Quiescent("a") /\ Len(log["a"]) = 6
  /\ log["a"][4] = << "B", BindMsg(PortalP, StmtS, 0).payload >>
  /\ log["a"][5] = << "B", BindMsg(PortalP, StmtR, 0).payload >>
  /\ log["a"][6] = << "B", BindMsg(PortalP, << >>, 0).payload >>
  /\ IsFailure(Reply("a", 5)) /\ Reply("a", 6) = << BindComplete >>
  /\ portals["a"][PortalP] = << >>

\* the client prepared s as the query on t, bound p to s, and then prepared s
\* again as SELECT 1; its next frame is the sixth dispatch
Redefined ==
  /\ Len(log["a"]) >= 6
  /\ [i \in 1..3 |-> log["a"][i + 1]] = [i \in 1..3 |-> << Bound[i].type, Bound[i].payload >>]
  /\ log["a"][5] = << "P", ParseMsg(StmtS, SqlSelectOne, 0).payload >>

\* C20: a portal holds the name of its statement, not the SQL: when s is
\* prepared again after p was bound to it, Execute(p) runs the new text
\* (SELECT 1: one row of the column ?column?) and Describe(Portal, p)
\* describes the new text (NoData for SELECT 1), not the query on t.
C20_PortalResolvesByName ==
  (Redefined /\ Quiescent("a")) =>
    LET g == Reply("a", 6)
    IN  /\ log["a"][6] = << "E", ExecuteMsg(PortalP).payload >> =>
             (/\ IsResultOf(g, 1)
              /\ [i \in 1..Len(g[1].cols) |-> g[1].cols[i].name]
                   = << <<63, 99, 111, 108, 117, 109, 110, 63>> >>
              /\ g[2].cells = << [null |-> FALSE, v |-> <<49>>] >>)
        /\ log["a"][6] = << "D", DescribeMsg(80, PortalP).payload >> => g = << NoData >>

\* C20 witness: the Execute of p after s was prepared again has been answered
C20_Witness ==
  /\ Redefined /\ Quiescent("a")
  /\ log["a"][6] = << "E", ExecuteMsg(PortalP).payload >>
  /\ Len(Reply("a", 6)) = 4 /\ prepared["a"][StmtS] = SqlSelectOne


(***************************************************************************)
(* Properties of Describe, Execute, Sync, Flush and Close.                 *)
(***************************************************************************)
\* the handlers the step resumes after their load of the database
Resumed ==
  IF pc = "idle" /\ Len(pending') < Len(pending)
  THEN {pending[i] : i \in 1..Len(pending)} \ {pending'[i] : i \in 1..Len(pending')}
  ELSE {}

\* the SQL text a Describe payload names on socket a; empty when it names none
Described(payload) ==
  LET name == readCString(payload, 1).s
  IN  IF payload[1] = 83 THEN statementSql("a", name)
      ELSE IF payload[1] = 80 THEN portalSql("a", name)
      ELSE << >>

\* C21: Describe never fails: a Describe of any kind and name changes no table
\* and is answered with exactly one message; with NoData at once when the name
\* resolves to no statement or the text does not parse (SELECT 1 does not),
\* else, once the database is loaded, with a RowDescription, or with NoData
\* when the dry run fails (the table does not exist).  No ErrorResponse and
\* no ReadyForQuery is written.
C21_DescribeIsBestEffort ==
  [][ /\ ReadyStep({"D"}) =>
           /\ Tables' = Tables /\ ~ended'["a"]
           /\ IF Described(Dispatched) \in {SqlSelectT, SqlSelectX}
              THEN /\ out' = out
                   /\ Len(pending') = Len(pending) + 1
                   /\ pending'[Len(pending')].kind = "describe"
              ELSE out'["a"] = Append(out["a"], NoData) /\ pending' = pending
      /\ \A t \in Resumed :
           (t.kind = "describe" /\ ~ended["a"]) =>
             /\ Tables' = Tables /\ ~ended'["a"]
             /\ Len(out'["a"]) = Len(out["a"]) + 1
             /\ SubSeq(out'["a"], 1, Len(out["a"])) = out["a"]
             /\ IF t.sql = SqlSelectT
                THEN out'["a"][Len(out'["a"])].tag = "T"
                ELSE out'["a"][Len(out'["a"])] = NoData ]_vars

\* C21 witness: with s prepared as a query on a table that does not exist, a
\* Describe of s was answered with NoData once the dry run had failed
C21_Witness ==
  /\ Quiescent("a") /\ Len(log["a"]) = 3
  /\ log["a"][2] = << "P", ParseMsg(StmtS, SqlSelectX, 0).payload >>
  /\ log["a"][3] = << "D", DescribeMsg(83, StmtS).payload >>
  /\ Reply("a", 3) = << NoData >>
  /\ Replies("a") = GoodHandshake \o << << "1", "" >>, << "n", "" >> >>

\* C22: after Parse(s, "SELECT 1") and Bind(p, s), Describe(Portal, p) is
\* answered with a RowDescription of exactly one int4 column named ?column?.
C22_DescribeSelectOne ==
  (/\ Quiescent("a") /\ Len(log["a"]) >= 4
   /\ [i \in 1..2 |-> log["a"][i + 1]] = [i \in 1..2 |-> << BoundOne[i].type, BoundOne[i].payload >>]
   /\ log["a"][4] = << "D", DescribeMsg(80, PortalP).payload >>) =>
     Reply("a", 4) = << RowDescription(<< ColumnSpec(<<63, 99, 111, 108, 117, 109, 110, 63>>,
                                                     OIDint4, 4) >>) >>

\* C23: Execute of a portal that resolves writes RowDescription, the DataRows
\* and CommandComplete but no ReadyForQuery: in the pipeline Parse, Bind,
\* Execute, Sync exactly one ReadyForQuery is written, by Sync, and it is the
\* last message.
C23_ExecuteWithoutReady ==
  (/\ Quiescent("a") /\ Len(log["a"]) = 5
   /\ [i \in 1..2 |-> log["a"][i + 1]] = [i \in 1..2 |-> << BoundOne[i].type, BoundOne[i].payload >>]
   /\ log["a"][4] = << "E", ExecuteMsg(PortalP).payload >>
   /\ log["a"][5] = << "S", << >> >>) =>
     LET n == Len(out["a"])
     IN  /\ [i \in 1..Len(Reply("a", 4)) |-> Reply("a", 4)[i].tag] = << "T", "D", "C" >>
         /\ {i \in (Len(GoodHandshake) + 1)..n : out["a"][i].tag = "Z"} = {n}
         /\ origin["a"][n] = 5

\* the step appends to the replies of socket a exactly an ErrorResponse that
\* names the given name and a ReadyForQuery(Error), starts no load of the
\* database, and changes no table and no flag
RefusedNaming(name) ==
  /\ out'["a"] = out["a"] \o << out'["a"][Len(out["a"]) + 1], ReadyForQuery("E") >>
  /\ out'["a"][Len(out["a"]) + 1].tag = "E"
  /\ out'["a"][Len(out["a"]) + 1].name = name
  /\ pending' = pending
  /\ Tables' = Tables /\ ~ended'["a"]

\* the portal an Execute payload names
ExecutedPortal(payload) == readCString(payload, 0).s

\* C24: an Execute that names a portal the portal table does not hold is
\* answered with exactly an ErrorResponse naming the portal and
\* ReadyForQuery(Error); an Execute of a portal whose statement is no longer
\* in the statement table is answered with exactly an ErrorResponse naming
\* the statement and ReadyForQuery(Error).  Neither writes a RowDescription,
\* a DataRow or a CommandComplete, now or later, nor changes the tables.
C24_ExecuteUnknownPortal ==
  [][ ReadyStep({"E"}) =>
        LET portal == ExecutedPortal(Dispatched)
        IN  IF portal \notin DOMAIN portals["a"] THEN RefusedNaming(portal)
            ELSE portals["a"][portal] \notin DOMAIN prepared["a"] =>
                   RefusedNaming(portals["a"][portal]) ]_vars

\* C24 witness: p was bound to s and s then closed; the Execute of p was
\* refused, and p is still bound to s
C24_Witness ==
  /\ Quiescent("a") /\ Len(log["a"]) = 6
  /\ log["a"][4] = << "B", BindMsg(PortalP, StmtS, 0).payload >>
  /\ log["a"][5] = << "C", CloseMsg(83, StmtS).payload >>
  /\ log["a"][6] = << "E", ExecuteMsg(PortalP).payload >>
  /\ IsFailure(Reply("a", 6)) /\ Reply("a", 6)[1].name = StmtS
  /\ portals["a"][PortalP] = StmtS /\ StmtS \notin DOMAIN prepared["a"]

\* C25: a Sync is answered with exactly one ReadyForQuery(Idle), also after
\* commands that failed, and changes no prepared statement and no portal, the
\* unnamed ones included.
C25_SyncRepliesIdle ==
  [][ ReadyStep({"S"}) =>
        /\ out'["a"] = Append(out["a"], ReadyForQuery("I"))
        /\ pending' = pending
        /\ Tables' = Tables /\ ~ended'["a"] ]_vars

\* C25 witness: with s, the unnamed statement and p in the tables, an Execute
\* of an unknown portal failed and the Sync after it was answered with
\* ReadyForQuery(Idle); the tables hold what they held
C25_Witness ==
  /\ Quiescent("a") /\ Len(log["a"]) = 6
  /\ log["a"][5] = << "E", ExecuteMsg(StmtR).payload >>
  /\ log["a"][6] = << "S", << >> >>
  /\ IsFailure(Reply("a", 5)) /\ Reply("a", 6) = << ReadyForQuery("I") >>
  /\ DOMAIN prepared["a"] = {StmtS, << >>} /\ DOMAIN portals["a"] = {PortalP}

\* C29: a Flush is not answered and changes nothing: the statement and
\* portal tables and the authentication flags stay as they are, the socket
\* stays open, no load is started, and the loop goes on with the bytes that
\* follow the five bytes of the frame.
C29_FlushIsSilent ==
  [][ ReadyStep({"H"}) =>
        /\ out' = out /\ dropped' = dropped
        /\ pending' = pending
        /\ Tables' = Tables /\ ~ended'["a"]
        /\ pc' = "loop" /\ buf' = SubSeq(buf, 6, Len(buf))
        /\ buffer' = buffer ]_vars

\* C29 witness: a Flush and then a Sync were dispatched, and only the Sync
\* was answered
C29_Witness ==
  /\ Quiescent("a") /\ Len(log["a"]) = 3
  /\ log["a"][2] = << "H", << >> >> /\ log["a"][3] = << "S", << >> >>
  /\ Replies("a") = Append(GoodHandshake, << "Z", "I" >>)
  /\ buffer["a"] = << >>

\* the map without the name (the same map when it does not hold the name)
Without(m, name) == [n \in DOMAIN m \ {name} |-> m[n]]

\* C26: Close(Statement, name) removes the name from the statement table if
\* it is there and leaves the portal table as it is; Close(Portal, name)
\* removes the name from the portal table if it is there and leaves the
\* statement table as it is; either is answered with exactly CloseComplete,
\* also when the name is absent, so a second Close of the same name is
\* answered the same and changes nothing.
C26_CloseIsIdempotent ==
  [][ ReadyStep({"C"}) =>
        LET name == readCString(Dispatched, 1).s
        IN  /\ out'["a"] = Append(out["a"], CloseComplete)
            /\ pending' = pending /\ ~ended'["a"]
            /\ awaitingPassword' = awaitingPassword /\ authenticated' = authenticated
            /\ Dispatched[1] = 83 =>
                 /\ prepared'["a"] = Without(prepared["a"], name)
                 /\ portals' = portals
            /\ Dispatched[1] = 80 =>
                 /\ portals'["a"] = Without(portals["a"], name)
                 /\ prepared' = prepared ]_vars

\* C26 witness: statement s, to which p is bound, was closed twice; both
\* Close were answered with CloseComplete, the unnamed statement is still
\* there and p is still bound
C26_Witness ==
  /\ Quiescent("a") /\ Len(log["a"]) = 6
  /\ log["a"][4] = << "B", BindMsg(PortalP, StmtS, 0).payload >>
  /\ log["a"][5] = << "C", CloseMsg(83, StmtS).payload >>
  /\ log["a"][6] = << "C", CloseMsg(83, StmtS).payload >>
  /\ Reply("a", 5) = << CloseComplete >> /\ Reply("a", 6) = << CloseComplete >>
  /\ DOMAIN prepared["a"] = {<< >>} /\ portals["a"][PortalP] = StmtS


(***************************************************************************)
(* Properties of closed sessions and of the isolation of the sessions.     *)
(***************************************************************************)
\* the step dispatches a frame on session a
Dispatches == Len(log'["a"]) = Len(log["a"]) + 1

Local(s) ==
  << s \in connections, dbName[s], buffer[s], prepared[s], portals[s],
     awaitingPassword[s], expectedUser[s], expectedPassword[s], authenticated[s],
     ended[s], out[s], dropped[s], log[s] >>

\* the step belongs to connection s: it reads bytes of s, runs the callback
\* of s, or resumes a handler of s
StepOf(s) ==
  \/ wire'[s] # wire[s]
  \/ pc = "loop" /\ cur = s
  \/ \E t \in Resumed : t.sock = s

\* C28: the sessions are isolated: the buffer, the flags, the tables and the
\* replies of a connection change only in the steps of that connection (a
\* read of its bytes, its callback, the completion of its load), whatever the
\* other connection sends and however the reads interleave; no step changes
\* both connections.
C28_SessionsAreIsolated ==
  [][ /\ \A s \in Socks : Local(s)' # Local(s) => StepOf(s)
      /\ Local("a")' = Local("a") \/ Local("b")' = Local("b") ]_vars

\* C28 witness: both connections prepared a statement s, each its own text,
\* and sent the same query; a, on database d, got the two rows, and b, on a
\* database without tables, got an error and stays open
C28_Witness ==
  /\ Quiescent("a") /\ Quiescent("b")
  /\ Len(log["a"]) = 3 /\ Len(log["b"]) = 4
  /\ log["a"][3] = << "Q", z(SqlSelectT) >> /\ log["b"][4] = << "Q", z(SqlSelectT) >>
  /\ IsResultOf(Reply("a", 3), 2) /\ IsFailure(Reply("b", 4))
  /\ DOMAIN prepared["a"] = {StmtS} /\ DOMAIN prepared["b"] = {StmtS}
  /\ prepared["a"][StmtS] = SqlSelectOne /\ prepared["b"][StmtS] = SqlSelectT
  /\ DOMAIN portals["a"] = {} /\ DOMAIN portals["b"] = {PortalP}
  /\ dbName["a"] = DbD /\ dbName["b"] = TableT
  /\ ~ended["a"] /\ ~ended["b"]


(***************************************************************************)
(* Properties of the session's database name.                              *)
(***************************************************************************)
\* C30: the session's database name is the database parameter of the
\* StartupMessage; when the message has none it is the configured default
\* database, else the user parameter, else "postgres".
C30_DatabaseDefaults ==
  [][ \A database \in {<< >>, DbD} :
        FirstRead(StartupMessage(UserU, database)) =>
          dbName'["a"] = IF database # << >> THEN database
                         ELSE IF cfg.defaultDb # << >> THEN cfg.defaultDb
                         ELSE IF UserU # << >> THEN UserU
                         ELSE Postgres ]_vars

(***************************************************************************)
(* Properties of the builders of the backend messages.                     *)
(***************************************************************************)
\* the messages whose builders pass no payload
Bare == {"EmptyQueryResponse", "ParseComplete", "BindComplete", "CloseComplete", "NoData"}

\* C31: every message a builder returns is one tag byte, then a length of four
\* bytes, big-endian, that counts itself and the payload but not the tag: read
\* back from the bytes, the length is the size of the message less one, and it
\* is 4 for the messages without a payload.
C31_BuildersAreSelfDelimited ==
  codec.built =>
    /\ Len(codec.bytes) >= 5
    /\ getInt32(codec.bytes, 1) = Len(codec.bytes) - 1
    /\ codec.call.fn \in Bare => getInt32(codec.bytes, 1) = 4 /\ Len(codec.bytes) = 5

\* a data row of two values that are not empty has been built
C31_Witness ==
  /\ codec.built
  /\ codec.call.fn = "DataRow"
  /\ Len(codec.call.values) = 2
  /\ \A i \in 1..2 : ~codec.call.values[i].null /\ Len(codec.call.values[i].v) > 0
  /\ getInt32(codec.bytes, 1) = Len(codec.bytes) - 1
  /\ Len(codec.bytes) > 13

\* a client's reading of k column descriptions from offset off of b
RECURSIVE readColumns(_, _, _)
readColumns(b, off, k) ==
  IF k = 0 THEN << >>
  ELSE LET name == readCString(b, off)
           at   == name.next
       IN  << [name |-> name.s, tableOID |-> getInt32(b, at), attr |-> getInt16(b, at + 4),
               typeOID |-> getInt32(b, at + 6), typeSize |-> getInt16(b, at + 10),
               typmod |-> getInt32(b, at + 12), format |-> getInt16(b, at + 16)] >>
           \o readColumns(b, at + 18, k - 1)

\* C32: a row description read back gives the number of columns and, for each
\* column in order, the name, the type and the size it was built with, with
\* table 0, column number 0 and type modifier -1.
C32_RowDescriptionRoundTrip ==
  (codec.built /\ codec.call.fn = "RowDescription") =>
    LET cols == codec.call.cols
        k    == getInt16(codec.bytes, 5)
    IN  /\ codec.bytes[1] = 84
        /\ k = Len(cols)
        /\ readColumns(codec.bytes, 7, k)
             = [i \in 1..Len(cols) |->
                  [name |-> cols[i].name, tableOID |-> 0, attr |-> 0,
                   typeOID |-> cols[i].typeOID, typeSize |-> cols[i].typeSize,
                   typmod |-> -1, format |-> cols[i].format]]

\* a description of an int4 column and a text column, in this order, has been
\* built and is read back as two columns
C32_Witness ==
  /\ codec.built
  /\ codec.call.fn = "RowDescription"
  /\ Len(codec.call.cols) = 2
  /\ codec.call.cols[1].typeOID = OIDint4 /\ codec.call.cols[1].name = <<105, 100>>
  /\ codec.call.cols[2].typeOID = OIDtext /\ codec.call.cols[2].name = <<118>>
  /\ getInt16(codec.bytes, 5) = 2
  /\ readColumns(codec.bytes, 7, 2)[2].typeSize = -1

(***************************************************************************)
(* Termination of the frame reader.                                        *)
(***************************************************************************)
\* C33: the loop of processFrontendMessages terminates: an iteration that does
\* not leave the loop leaves it a buffer that is shorter by at least one byte,
\* whatever length the frame declares.
C33_EveryIterationConsumes ==
  [][ (pc = "loop" /\ pc' = "loop") => Len(buf') < Len(buf) ]_vars

(***************************************************************************)
(* Authentication as a gate.                                               *)
(***************************************************************************)
\* the first password message of socket s did not match the expected password
Mismatched(s) ==
  /\ expectedPassword[s] # << >>
  /\ Len(log[s]) >= 1
  /\ log[s][1][1] = "p"
  /\ log[s][1][2] # z(expectedPassword[s])

\* C34: a failed authentication is final: once a password message has
\* mismatched, the session is never authenticated and AuthenticationOk is never
\* written to it, whatever password a later message carries.
C34_FailedAuthenticationIsFinal ==
  \A s \in Socks :
    Mismatched(s) =>
      /\ ~authenticated[s]
      /\ \A i \in 1..Len(out[s]) : ~(out[s][i].tag = "R" /\ out[s][i].code = "0")

\* C35: no command runs before authentication: while a session is not
\* authenticated it has no prepared statement and no portal, and none of
\* RowDescription, DataRow, CommandComplete, ParseComplete, BindComplete,
\* CloseComplete, NoData and ReadyForQuery(Idle) has been written to it.
C35_NoCommandBeforeAuthentication ==
  \A s \in Socks :
    ~authenticated[s] =>
      /\ prepared[s] = EmptyMap
      /\ portals[s] = EmptyMap
      /\ \A i \in 1..Len(out[s]) :
           /\ out[s][i].tag \notin {"T", "D", "C", "1", "2", "3", "n"}
           /\ ~(out[s][i].tag = "Z" /\ out[s][i].code = "I")

\* a session that awaits its password was sent Parse and then a Query, and
\* answered both with the refusal
C35_Witness ==
  /\ "a" \in connections /\ ~authenticated["a"] /\ awaitingPassword["a"] /\ ~ended["a"]
  /\ Len(log["a"]) = 2 /\ log["a"][1][1] = "P" /\ log["a"][2][1] = "Q"
  /\ Replies("a") = << << "R", "3" >>, << "E", "28P01" >>, << "Z", "E" >>,
                       << "E", "28P01" >>, << "Z", "E" >> >>
  /\ prepared["a"] = EmptyMap /\ pending = << >>

(***************************************************************************)
(* Describe against Execute.                                               *)
(***************************************************************************)
\* C36: Describe and Execute agree on the shape of the result: when
\* Describe(Portal, p) is followed at once by Execute(p) and both write a
\* RowDescription, the two carry the same columns (number, names, types).
C36_DescribeAgreesWithExecute ==
  \A d \in 1..(Len(log["a"]) - 1) :
    ( /\ Quiescent("a")
      /\ log["a"][d] = << "D", DescribeMsg(80, PortalP).payload >>
      /\ log["a"][d + 1] = << "E", ExecuteMsg(PortalP).payload >>
      /\ Reply("a", d) # << >> /\ Reply("a", d)[1].tag = "T"
      /\ Reply("a", d + 1) # << >> /\ Reply("a", d + 1)[1].tag = "T" )
    => Reply("a", d)[1].cols = Reply("a", d + 1)[1].cols

(***************************************************************************)
(* The startup and the transport.                                          *)
(***************************************************************************)
\* C37: the startup does not depend on how the transport splits the bytes:
\* once every byte of a client that sends its StartupMessage and then the
\* right password has been read and answered, the session is open and
\* authenticated and its replies begin with the handshake, as they do when
\* each message arrives in a read of its own.
C37_StartupIgnoresSplitting ==
  Quiescent("a") =>
    /\ "a" \in connections /\ authenticated["a"] /\ ~ended["a"]
    /\ Len(out["a"]) >= Len(GoodHandshake)
    /\ SubSeq(Replies("a"), 1, Len(GoodHandshake)) = GoodHandshake

\* each message in a read of its own: the handshake completes
OwnReads ==
  /\ Quiescent("a") /\ "a" \in connections /\ authenticated["a"] /\ ~ended["a"]
  /\ Replies("a") = GoodHandshake

(***************************************************************************)
(* Resolution of a portal, and portals that outlive their statement.       *)
(***************************************************************************)
\* the tags of the reply to message q of socket a
ReplyTags(q) == [i \in 1..Len(Reply("a", q)) |-> Reply("a", q)[i].tag]

\* socket a has sent its password, then Parse("s", "SELECT * FROM t"),
\* Parse("", "SELECT 1") and Bind("p", "s"), and then at least one more message
BoundThenMore ==
  /\ Len(log["a"]) >= 5
  /\ \A i \in 1..3 : log["a"][i + 1] = << Bound[i].type, Bound[i].payload >>

\* C38: Execute and Describe resolve the portal to its SQL text when they are
\* dispatched: with portal "p" bound to "SELECT * FROM t", an Execute("p") is
\* answered with the rows of t and a Describe(Portal, "p") with a
\* RowDescription, whatever Parse, Bind or Close is dispatched before the
\* storage load completes.
C38_ResolvedAtDispatch ==
  (BoundThenMore /\ \A i \in 1..Len(pending) : pending[i].seq # 5) =>
    /\ log["a"][5] = << "E", ExecuteMsg(PortalP).payload >>
         => /\ ReplyTags(5) = << "T", "D", "D", "C", "Z" >>
            /\ Len(Reply("a", 5)[1].cols) = 2
    /\ log["a"][5] = << "D", DescribeMsg(80, PortalP).payload >>
         => ReplyTags(5) = << "T" >>

\* Execute("p") was followed by a Parse that gives statement "s" the text
\* "SELECT * FROM x" before the load completed: the Parse is answered first,
\* and then the Execute with the rows of t
C38_Witness ==
  /\ Quiescent("a") /\ BoundThenMore /\ Len(log["a"]) = 6
  /\ log["a"][5] = << "E", ExecuteMsg(PortalP).payload >>
  /\ log["a"][6] = << "P", ParseMsg(StmtS, SqlSelectX, 0).payload >>
  /\ prepared["a"][StmtS] = SqlSelectX
  /\ Replies("a") = GoodHandshake
                    \o << << "1", "" >>, << "1", "" >>, << "2", "" >>, << "1", "" >>,
                          << "T", "" >>, << "D", "" >>, << "D", "" >>, << "C", "" >>,
                          << "Z", "I" >> >>

\* portal p of socket a is bound to a statement the statement table lacks
Orphan(p) ==
  p \in DOMAIN portals["a"] /\ portals["a"][p] \notin DOMAIN prepared["a"]

\* C39: a Close of a statement removes no portal.  While the statement of a
\* portal is gone, an Execute of the portal is answered with exactly the
\* ErrorResponse "prepared statement missing" and ReadyForQuery(Error), and a
\* Describe of the portal with exactly NoData; a Parse under the statement's
\* name leaves the portal bound and resolving to the new text, and an Execute
\* of a portal whose statement is there is handed to the executor.
C39_PortalOutlivesStatement ==
  [][ /\ (ReadyStep({"C"}) /\ Dispatched[1] = 83) => portals' = portals
      /\ (ReadyStep({"E"}) /\ Orphan(ExecutedPortal(Dispatched))) =>
           /\ out'["a"] = out["a"]
                \o << ErrorResponse("prepared statement missing",
                                    portals["a"][ExecutedPortal(Dispatched)], "XX000"),
                      ReadyForQuery("E") >>
           /\ pending' = pending /\ portals' = portals
      /\ (ReadyStep({"D"}) /\ Dispatched[1] = 80 /\ Orphan(readCString(Dispatched, 1).s)) =>
           /\ out'["a"] = Append(out["a"], NoData)
           /\ pending' = pending /\ portals' = portals
      /\ (ReadyStep({"P"}) /\ Orphan(PortalP)
          /\ readCString(Dispatched, 0).s = portals["a"][PortalP]
          /\ out'["a"] = Append(out["a"], ParseComplete)) =>
           /\ portals' = portals
           /\ portalSql("a", PortalP)' # << >>
      /\ (ReadyStep({"E"}) /\ ExecutedPortal(Dispatched) \in DOMAIN portals["a"]
          /\ ~Orphan(ExecutedPortal(Dispatched))) =>
           \/ Len(pending') = Len(pending) + 1 /\ out' = out
           \/ /\ Len(out'["a"]) = Len(out["a"]) + 4
              /\ out'["a"][Len(out["a"]) + 1].tag = "T" ]_vars

\* statement s, to which p was bound, was closed and parsed again as
\* "SELECT 1"; the Execute of p that followed was answered with one row
C39_Witness ==
  /\ Quiescent("a") /\ Len(log["a"]) = 7
  /\ log["a"][4] = << "B", BindMsg(PortalP, StmtS, 0).payload >>
  /\ log["a"][5] = << "C", CloseMsg(83, StmtS).payload >>
  /\ log["a"][6] = << "P", ParseMsg(StmtS, SqlSelectOne, 0).payload >>
  /\ log["a"][7] = << "E", ExecuteMsg(PortalP).payload >>
  /\ ReplyTags(7) = << "T", "D", "C", "Z" >>
  /\ Reply("a", 5) = << CloseComplete >>
  /\ portals["a"][PortalP] = StmtS

(***************************************************************************)
(* Every query is answered.                                                *)
(***************************************************************************)
\* message q of socket a is a Query that was dispatched while the session was
\* authenticated and open: the password matched and no Terminate came before
Asked(q) ==
  /\ q <= Len(log["a"]) /\ log["a"][q][1] = "Q"
  /\ log["a"][1] = << "p", z(PwGood) >>
  /\ \A j \in 1..(q - 1) : log["a"][j][1] # "X"

\* the ReadyForQuery messages written for message q of socket a
Readies(q) == {i \in ReplyPositions("a", q) : out["a"][i].tag = "Z"}

\* every Query asked so far has exactly one ReadyForQuery
AllAnswered == \A q \in 1..Len(log["a"]) : Asked(q) => Cardinality(Readies(q)) = 1

\* no message has two ReadyForQuery
NoneTwice == \A q \in 1..Len(log["a"]) : Cardinality(Readies(q)) <= 1

=============================================================================
